---------------------------- MODULE Spec2Model ----------------------------
(***************************************************************************)
(* CodeTestGuard: the change-coverage analysis pipeline.                   *)
(*                                                                         *)
(*   services/ast_parser.py        method extraction and change detection  *)
(*   services/coverage_analyzer.py coverage matching (fuzzy text match)    *)
(*   services/scoring_model.py     the four-dimension scoring model        *)
(*   index.py                      the two analysis endpoints              *)
(*                                                                         *)
(* Texts that the code inspects character by character (descriptions,      *)
(* test-function texts, steps, expected results) are sequences of          *)
(* characters; a character is a one-element token, and a non-ASCII         *)
(* character is written by an ASCII label (U+FF0C is "uff0c").  Names    *)
(* that the code only concatenates and compares (package, class, method,   *)
(* parameter types) are strings.                                           *)
(*                                                                         *)
(* Decimal results of round(x, n) are integers in units of 10^-n.          *)
(***************************************************************************)
EXTENDS Integers, Sequences, FiniteSets, TLC

VARIABLES
    pc,                     \* position of the modelled call or request
    current_code,           \* extract_changed_methods: the current document
    history_code,           \* extract_changed_methods: the history document
    changed,                \* extract_changed_methods: its result
    changed_methods,        \* analyze_coverage: list of changed-method dicts
    mapping_entries,        \* analyze_coverage: list of MappingEntry
    test_cases,             \* analyze_coverage: list of TestCase
    coverage_result,        \* analyze_coverage: the CoverageResult returned
    rate_covered,           \* lines 175-182: len(covered)
    rate_total,             \* lines 175-182: total
    rate_value,             \* lines 175-182: the rounded coverage_rate
    total_changed_methods,  \* calculate_score: first argument
    covered_count,          \* calculate_score: second argument
    test_rows,              \* calculate_score: the test-case rows (dicts)
    score_result,           \* calculate_score: the ScoreResult returned
    endpoint,               \* request: which analysis endpoint serves it
    code_json,              \* request: the current and history documents
    file_index,             \* request: index i of the loop over file pairs
    response,               \* request: the response sent
    grade_score,            \* _get_grade: a total score
    grade_higher,           \* _get_grade: a total score not below grade_score
    grade_result,           \* grade and summary of the two scores
    diff_current,           \* compute_diff: current_code
    diff_history,           \* compute_diff: history_code
    diff_result,            \* compute_diff: the DiffResult returned
    json_content,           \* analyze_code_changes: the payload
    analysis_result,        \* analyze_code_changes: what the call gives
    diff_calls,             \* analyze_code_changes: calls of compute_diff made
    parse_javalang,         \* parse_java_code: whether javalang was imported
    parse_source,           \* parse_java_code: source_code
    parse_result,           \* parse_java_code: the ParseResult and the methods
    summary_result,         \* format_diff_summary: the AnalysisResult
    summary_text,           \* format_diff_summary: the text returned
    openai_imported,        \* call_deepseek: whether the import of line 14 succeeded
    api_key,                \* call_deepseek: the environment's DEEPSEEK_API_KEY
    attempt,                \* call_deepseek: the loop variable of line 108
    api_calls,              \* call_deepseek: the calls of create made so far
    api_replies,            \* call_deepseek: what the calls of create gave, in order
    call_return,            \* call_deepseek: the value returned
    mapping_rows            \* parse_mapping_data: rows

vars_change   == <<current_code, history_code, changed>>
vars_coverage == <<changed_methods, mapping_entries, test_cases, coverage_result>>
vars_rate     == <<rate_covered, rate_total, rate_value>>
vars_score    == <<total_changed_methods, covered_count, test_rows, score_result>>
vars_request  == <<endpoint, code_json, file_index, response>>

vars_grade    == <<grade_score, grade_higher, grade_result>>
vars_diff     == <<diff_current, diff_history, diff_result>>
vars_changes  == <<json_content, analysis_result, diff_calls>>
vars_parse    == <<parse_javalang, parse_source, parse_result>>
vars_summary  == <<summary_result, summary_text>>
vars_deepseek == <<openai_imported, api_key, attempt, api_calls, api_replies, call_return>>
vars_mapping  == <<mapping_rows>>

\* the groups added after the request pipeline
vars_more     == <<vars_parse, vars_summary, vars_deepseek, vars_mapping>>

vars == <<pc, vars_change, vars_coverage, vars_rate, vars_score, vars_request,
          vars_grade, vars_diff, vars_changes, vars_more>>

----------------------------------------------------------------------------
(* Bounds of the input domains. *)

MaxMethods == 2         \* method declarations in one document
MaxChanged == 2         \* changed methods handed to analyze_coverage
MaxMapping == 2         \* mapping entries handed to analyze_coverage
MaxTests   == 2         \* test cases handed to analyze_coverage
MaxDescLen == 7         \* characters of a description in the matching check
BigTotal   == 20001     \* largest number of changed methods in the rate check
BigScoreTotal == 2001   \* largest number of changed methods scored for coverage
SmallTotal == 40        \* totals whose every covered count is tried
MaxTotal   == 3         \* total_changed_methods handed to calculate_score
MaxCovered == 4         \* covered_count handed to calculate_score
MaxRows    == 3         \* test-case rows handed to calculate_score
MaxFiles   == 2         \* documents on either side of a request
MaxBoundaryRows == 7    \* test-case rows scored for boundary cases
MaxUploadRows == 1      \* test-case rows uploaded with a request
MaxLines   == 3         \* lines with a newline in a text handed to compute_diff
MaxSummaryLines == 12   \* added or removed lines of a file handed to format_diff_summary

\* the largest total score, 100.0, in tenths (scoring_model.py line 300)
MaxScore == 1000

----------------------------------------------------------------------------
(* Generic helpers. *)

SeqsUpTo(S, n) == UNION {[1..k -> S] : k \in 0..n}

RECURSIVE JoinStr(_, _)
\* sep.join(parts) on strings
JoinStr(parts, sep) ==
    IF parts = <<>> THEN ""
    ELSE IF Len(parts) = 1 THEN parts[1]
    ELSE parts[1] \o sep \o JoinStr(Tail(parts), sep)

\* dict.get(key, default)
DictGet(d, key, default) == IF key \in DOMAIN d THEN d[key] ELSE default

\* Python's a in b on texts: a occurs in b as a contiguous run
IsSubstr(a, b) ==
    \E i \in 0..(Len(b) - Len(a)) : SubSeq(b, i + 1, i + Len(a)) = a

\* str.lower() on the characters of the model
LowerChar(c) ==
    CASE c = "A" -> "a"
      [] c = "X" -> "x"
      [] OTHER   -> c

Lower(s) == [i \in 1..Len(s) |-> LowerChar(s[i])]

\* str.replace(old, new) for single characters
ReplaceChar(s, old, new) == [i \in 1..Len(s) |-> IF s[i] = old THEN new ELSE s[i]]

\* characters that str.split() and str.strip() treat as whitespace: space,
\* tab, newline, U+3000
WhitespaceChars == {" ", "TAB", "NL", "u3000"}

RECURSIVE SplitLoop(_, _)
\* str.split(): the maximal whitespace-free runs of s, in order; word is the
\* run being read
SplitLoop(s, word) ==
    IF s = <<>> THEN (IF word = <<>> THEN <<>> ELSE <<word>>)
    ELSE IF Head(s) \in WhitespaceChars
         THEN (IF word = <<>> THEN <<>> ELSE <<word>>) \o SplitLoop(Tail(s), <<>>)
         ELSE SplitLoop(Tail(s), Append(word, Head(s)))

Split(s) == SplitLoop(s, <<>>)

\* integer quotient and the integers nearest to num/den (den > 0): one, or
\* two when num/den lies exactly half way.  round() decides such a tie by
\* the binary value of its float argument, which the decimal value does not
\* fix, so both neighbours are results the call can produce.
RoundChoices(num, den) ==
    LET q == num \div den
    IN  { r \in {q, q + 1} : 2 * (num - r * den) <= den /\ 2 * (r * den - num) <= den }

RECURSIVE Flatten(_)
\* concatenation of a sequence of sequences
Flatten(ss) == IF ss = <<>> THEN <<>> ELSE ss[1] \o Flatten(Tail(ss))

----------------------------------------------------------------------------
(* services/ast_parser.py *)

\* A source document is what javalang makes of it: no text at all
\* ("empty"), text that does not parse ("invalid"), or a compilation unit
\* ("tree") with an optional package and its type declarations, each with
\* the method and constructor declarations of its body.
MethodDecls ==
    { [kind |-> "method", name |-> "f", params |-> <<>>,      return_type |-> "void"],
      [kind |-> "method", name |-> "f", params |-> <<"int">>, return_type |-> "int"],
      [kind |-> "constructor", name |-> "C", params |-> <<>>, return_type |-> "" ] }

TypeBodies(n) == SeqsUpTo(MethodDecls, n)

TypeLists ==
    { <<>> }
    \cup { <<[name |-> c, body |-> b]>> : c \in {"C"}, b \in TypeBodies(MaxMethods) }
    \cup UNION { { << [name |-> "C", body |-> b1], [name |-> "D", body |-> b2] >> :
                     b1 \in TypeBodies(k), b2 \in TypeBodies(MaxMethods - k) }
                 : k \in 0..MaxMethods }

Documents ==
    { [kind |-> "empty",   package |-> "", types |-> <<>>],
      [kind |-> "invalid", package |-> "", types |-> <<>>] }
    \cup { [kind |-> "tree", package |-> p, types |-> t] :
             p \in {"", "p"}, t \in TypeLists }

MethodInfo(pkg, cls, decl) ==
    [ package_name |-> pkg,
      class_name   |-> cls,
      method_name  |-> decl.name,
      return_type  |-> IF decl.kind = "constructor" THEN "" ELSE decl.return_type,
      parameters   |-> decl.params ]

full_qualified_name(m) ==
    m.package_name \o "." \o m.class_name \o "." \o m.method_name

ClassInfo(pkg, type_decl) ==
    [ package_name |-> pkg,
      class_name   |-> type_decl.name,
      methods      |-> [i \in 1..Len(type_decl.body) |->
                           MethodInfo(pkg, type_decl.name, type_decl.body[i])] ]

\* the messages of lines 63, 66, 71 and 73, each written as its code points;
\* the last two are followed by the text of the exception
MsgNoJavalang == "javalangu5e93u672au5b89u88c5"
MsgEmptySource == "u6e90u4ee3u7801u4e3au7a7a"
MsgSyntaxError == "Javau8bedu6cd5u9519u8bef: "
MsgParseException == "u89e3u6790u5f02u5e38: "

ParseResult(classes, errors) == [classes |-> classes, errors |-> errors]

\* A variant without the test of line 65, which hands every text to javalang.
parse_java_code_unchecked(source_code) ==
    IF source_code.kind = "tree"
    THEN ParseResult([i \in 1..Len(source_code.types) |->
                         ClassInfo(source_code.package, source_code.types[i])],
                     <<>>)
    ELSE ParseResult(<<>>, <<MsgSyntaxError>>)

\* parse_java_code(source_code) from line 65 on, javalang being imported.
\* Kinds of documents: "empty" and "blank" (only whitespace) take the return
\* of line 66, "invalid" raises JavaSyntaxError in javalang, "exception" any
\* other exception, "tree" parses.
parse_java_code(source_code) ==
    IF source_code.kind \in {"empty", "blank"}
    THEN ParseResult(<<>>, <<MsgEmptySource>>)
    ELSE IF source_code.kind = "invalid"
    THEN ParseResult(<<>>, <<MsgSyntaxError>>)
    ELSE IF source_code.kind = "exception"
    THEN ParseResult(<<>>, <<MsgParseException>>)
    ELSE ParseResult([i \in 1..Len(source_code.types) |->
                         ClassInfo(source_code.package, source_code.types[i])],
                     <<>>)

\* parse_java_code(source_code) from line 62 on: imported tells whether the
\* import of lines 10-13 succeeded
ParseJavaCode(imported, source_code) ==
    IF ~imported THEN ParseResult(<<>>, <<MsgNoJavalang>>)
    ELSE parse_java_code(source_code)

\* the loop of lines 159-162 over the classes of a ParseResult
MethodsOfClasses(result) ==
    Flatten([i \in 1..Len(result.classes) |-> result.classes[i].methods])

extract_methods_from_code(source_code) ==
    LET result == parse_java_code(source_code)
    IN  Flatten([i \in 1..Len(result.classes) |-> result.classes[i].methods])

\* the signature string of lines 184 and 190
Signature(m) ==
    m.package_name \o "." \o m.class_name \o "." \o m.method_name
        \o "(" \o JoinStr(m.parameters, ",") \o ")"

RECURSIVE ChangedLoop(_, _)
\* the loop of lines 188-192
ChangedLoop(methods, history_signatures) ==
    IF methods = <<>> THEN <<>>
    ELSE LET m == Head(methods)
             rest == ChangedLoop(Tail(methods), history_signatures)
         IN  IF Signature(m) \notin history_signatures
             THEN <<m>> \o rest
             ELSE rest

\* A variant that compares qualified names only, ignoring parameter types.
extract_changed_methods_by_name(cur, hist) ==
    LET current_methods == extract_methods_from_code(cur)
        history_methods == extract_methods_from_code(hist)
        history_names ==
            { full_qualified_name(history_methods[i]) : i \in 1..Len(history_methods) }
    IN  SelectSeq(current_methods,
                  LAMBDA m : full_qualified_name(m) \notin history_names)

\* A variant that reports nothing when the history has no method to compare
\* with.
extract_changed_methods_compared(cur, hist) ==
    LET current_methods == extract_methods_from_code(cur)
        history_methods == extract_methods_from_code(hist)
        history_signatures ==
            { Signature(history_methods[i]) : i \in 1..Len(history_methods) }
    IN  IF history_methods = <<>> THEN <<>>
        ELSE ChangedLoop(current_methods, history_signatures)

extract_changed_methods(cur, hist) ==
    LET current_methods == extract_methods_from_code(cur)
        history_methods == extract_methods_from_code(hist)
        history_signatures ==
            { Signature(history_methods[i]) : i \in 1..Len(history_methods) }
    IN  ChangedLoop(current_methods, history_signatures)

----------------------------------------------------------------------------
(* services/coverage_analyzer.py *)

\* MappingEntry.full_qualified_name
entry_full_qualified_name(entry) ==
    entry.package_name \o "." \o entry.class_name \o "." \o entry.method_name

\* error of the early return, line 121 ("no code changes detected")
NoChangesError == "u6ca1u6709u68c0u6d4bu5230u4ee3u7801u6539u52a8"

\* text of a detail entry without description, line 170 ("no mapping
\* description")
NoMappingDescription == <<"u65e0", "u6620", "u5c04", "u63cf", "u8ff0">>

\* the keys of a test-case row, English and Chinese
KeySteps      == "test_steps"
KeyStepsCn    == "u6d4bu8bd5u6b65u9aa4"
KeyExpected   == "expected_result"
KeyExpectedCn == "u9884u671fu7ed3u679c"
KeyFunction   == "test_function"
KeyFunctionCn == "u6d4bu8bd5u529fu80fd"
KeyId         == "test_id"
KeyIdCn       == "u6d4bu8bd5u7528u4f8bID"

RECURSIVE LStrip(_)
LStrip(s) ==
    IF s # <<>> /\ Head(s) \in WhitespaceChars THEN LStrip(Tail(s)) ELSE s

RECURSIVE RStrip(_)
RStrip(s) ==
    IF s # <<>> /\ s[Len(s)] \in WhitespaceChars
    THEN RStrip(SubSeq(s, 1, Len(s) - 1))
    ELSE s

\* str.strip()
Strip(s) == RStrip(LStrip(s))

\* TestCase(test_id, test_function, test_steps, expected_result)
TestCase(id, function, steps, expected) ==
    [test_id |-> id, test_function |-> function, test_steps |-> steps,
     expected_result |-> expected]

RECURSIVE parse_test_cases(_)
\* parse_test_cases(rows): the Chinese key is looked up first, the values are
\* stripped, and a row without an id or without a function is left out
parse_test_cases(rows) ==
    IF rows = <<>> THEN <<>>
    ELSE LET row == Head(rows)
             test_id == Strip(DictGet(row, KeyIdCn, DictGet(row, KeyId, <<>>)))
             func == Strip(DictGet(row, KeyFunctionCn, DictGet(row, KeyFunction, <<>>)))
             steps == Strip(DictGet(row, KeyStepsCn, DictGet(row, KeySteps, <<>>)))
             expected == Strip(DictGet(row, KeyExpectedCn, DictGet(row, KeyExpected, <<>>)))
         IN  (IF test_id # <<>> /\ func # <<>>
              THEN << TestCase(test_id, func, steps, expected) >>
              ELSE <<>>)
             \o parse_test_cases(Tail(rows))

\* the column names of lines 57-60
KeyPackage       == "package_name"
KeyPackageCn     == "u5305u540d"
KeyClass         == "class_name"
KeyClassCn       == "u7c7bu540d"
KeyMethod        == "method_name"
KeyMethodCn      == "u65b9u6cd5u540d"
KeyDescription   == "description"
KeyDescriptionCn == "u529fu80fdu63cfu8ff0"

\* MappingEntry(package_name, class_name, method_name, description): the
\* names are strings, made of the characters of the texts
MappingEntry(package, class_name, method, desc) ==
    [package_name |-> JoinStr(package, ""), class_name |-> JoinStr(class_name, ""),
     method_name |-> JoinStr(method, ""), description |-> desc]

RECURSIVE parse_mapping_data_unchecked(_)
\* A variant of parse_mapping_data without the test of line 62.
parse_mapping_data_unchecked(rows) ==
    IF rows = <<>> THEN <<>>
    ELSE LET row == Head(rows)
             package == Strip(DictGet(row, KeyPackageCn, DictGet(row, KeyPackage, <<>>)))
             class_name == Strip(DictGet(row, KeyClassCn, DictGet(row, KeyClass, <<>>)))
             method == Strip(DictGet(row, KeyMethodCn, DictGet(row, KeyMethod, <<>>)))
             desc == Strip(DictGet(row, KeyDescriptionCn, DictGet(row, KeyDescription, <<>>)))
         IN  << MappingEntry(package, class_name, method, desc) >>
             \o parse_mapping_data_unchecked(Tail(rows))

RECURSIVE parse_mapping_data(_)
\* parse_mapping_data(rows): the Chinese key is looked up first, the values
\* are stripped, and a row without package, class or method is left out
parse_mapping_data(rows) ==
    IF rows = <<>> THEN <<>>
    ELSE LET row == Head(rows)
             package == Strip(DictGet(row, KeyPackageCn, DictGet(row, KeyPackage, <<>>)))
             class_name == Strip(DictGet(row, KeyClassCn, DictGet(row, KeyClass, <<>>)))
             method == Strip(DictGet(row, KeyMethodCn, DictGet(row, KeyMethod, <<>>)))
             desc == Strip(DictGet(row, KeyDescriptionCn, DictGet(row, KeyDescription, <<>>)))
         IN  (IF package # <<>> /\ class_name # <<>> /\ method # <<>>
              THEN << MappingEntry(package, class_name, method, desc) >>
              ELSE <<>>)
             \o parse_mapping_data(Tail(rows))

\* CoverageResult(...) with the dataclass defaults of lines 36-41
CoverageResult(total, covered, uncovered, rate, details, error) ==
    [ total_changed_methods |-> total,
      covered_methods       |-> covered,
      uncovered_methods     |-> uncovered,
      coverage_rate         |-> rate,
      coverage_details      |-> details,
      error                 |-> error ]

DefaultCoverageResult == CoverageResult(0, <<>>, <<>>, 0, <<>>, "None")

\* A variant of the index in which the first entry of a key stays.
MappingIndexFirst(entries) ==
    { <<entry_full_qualified_name(entries[i]), entries[i].description>> :
        i \in { k \in 1..Len(entries) :
                  \A j \in 1..(k - 1) :
                      entry_full_qualified_name(entries[j]) # entry_full_qualified_name(entries[k]) } }

RECURSIVE MappingIndex(_)
\* the dict built by lines 124-127, as the set of its items: a later entry
\* replaces an earlier one with the same key
MappingIndex(entries) ==
    IF entries = <<>> THEN {}
    ELSE LET last == entries[Len(entries)]
             key  == entry_full_qualified_name(last)
             before == MappingIndex(SubSeq(entries, 1, Len(entries) - 1))
         IN  { kv \in before : kv[1] # key } \cup { <<key, last.description>> }

\* mapping_index.get(full_name, "")
IndexGet(index, full_name) ==
    IF \E kv \in index : kv[1] = full_name
    THEN (CHOOSE kv \in index : kv[1] = full_name)[2]
    ELSE <<>>

\* _fuzzy_match(desc, test_func)
CountTrue(flags) == Cardinality({ i \in 1..Len(flags) : flags[i] })

Max(a, b) == IF a >= b THEN a ELSE b
Min(a, b) == IF a <= b THEN a ELSE b

\* A variant that asks for one matching keyword whatever their number.
fuzzy_match_any(desc, test_func) ==
    LET keywords == Split(ReplaceChar(ReplaceChar(ReplaceChar(desc, ",", " "),
                                                  "uff0c", " "), "/", " "))
    IN  \E i \in 1..Len(keywords) : IsSubstr(keywords[i], test_func)

fuzzy_match(desc, test_func) ==
    LET keywords == Split(ReplaceChar(ReplaceChar(ReplaceChar(desc, ",", " "),
                                                  "uff0c", " "), "/", " "))
        match_count == CountTrue([i \in 1..Len(keywords) |->
                                     IsSubstr(keywords[i], test_func)])
    IN  IF keywords = <<>> THEN FALSE
        ELSE match_count >= Max(1, Len(keywords) \div 2)

\* A variant of the condition without the test of the function text in the
\* description.
TestMatchesForward(description, tc) ==
    LET desc_lower == Lower(description)
        func_lower == Lower(tc.test_function)
    IN  \/ IsSubstr(desc_lower, func_lower)
        \/ fuzzy_match(desc_lower, func_lower)

\* the condition of lines 153-159 for one test case
TestMatches(description, tc) ==
    LET desc_lower == Lower(description)
        func_lower == Lower(tc.test_function)
    IN  \/ IsSubstr(desc_lower, func_lower)
        \/ IsSubstr(func_lower, desc_lower)
        \/ fuzzy_match(desc_lower, func_lower)

\* A variant of the loop of lines 154-161 that stops at the first match.
MatchedTestsFirst(description, tcs) ==
    LET hits == { i \in 1..Len(tcs) : TestMatches(description, tcs[i]) }
    IN  IF hits = {} THEN <<>>
        ELSE << tcs[CHOOSE i \in hits : \A j \in hits : i <= j].test_id >>

RECURSIVE MatchedTests(_, _)
\* the loop of lines 154-161: the ids of the matching test cases
MatchedTests(description, tcs) ==
    IF tcs = <<>> THEN <<>>
    ELSE (IF TestMatches(description, Head(tcs)) THEN <<Head(tcs).test_id>> ELSE <<>>)
         \o MatchedTests(description, Tail(tcs))

\* the lists the loop of lines 139-173 fills
EmptyLists == [covered |-> <<>>, uncovered |-> <<>>, details |-> <<>>]

\* A variant of the loop body that leaves a method without description out
\* of both lists.
CoverageStepSkipUnmapped(lists, method, index, tcs) ==
    LET pkg == DictGet(method, "package_name", "")
        cls == DictGet(method, "class_name", "")
        mtd == DictGet(method, "method_name", "")
        full_name == pkg \o "." \o cls \o "." \o mtd
        description == IndexGet(index, full_name)
        matched_tests == IF description # <<>> THEN MatchedTests(description, tcs) ELSE <<>>
        is_covered == matched_tests # <<>>
    IN  [ covered   |-> IF is_covered THEN Append(lists.covered, full_name)
                        ELSE lists.covered,
          uncovered |-> IF is_covered \/ description = <<>> THEN lists.uncovered
                        ELSE Append(lists.uncovered, full_name),
          details   |-> Append(lists.details,
                               [ method        |-> full_name,
                                 description   |-> IF description # <<>> THEN description
                                                   ELSE NoMappingDescription,
                                 is_covered    |-> is_covered,
                                 matched_tests |-> matched_tests ]) ]

\* one iteration of the loop of lines 139-173
CoverageStep(lists, method, index, tcs) ==
    LET pkg == DictGet(method, "package_name", "")
        cls == DictGet(method, "class_name", "")
        mtd == DictGet(method, "method_name", "")
        full_name == pkg \o "." \o cls \o "." \o mtd
        description == IndexGet(index, full_name)
        matched_tests == IF description # <<>> THEN MatchedTests(description, tcs) ELSE <<>>
        is_covered == matched_tests # <<>>
    IN  [ covered   |-> IF is_covered THEN Append(lists.covered, full_name)
                        ELSE lists.covered,
          uncovered |-> IF is_covered THEN lists.uncovered
                        ELSE Append(lists.uncovered, full_name),
          details   |-> Append(lists.details,
                               [ method        |-> full_name,
                                 description   |-> IF description # <<>> THEN description
                                                   ELSE NoMappingDescription,
                                 is_covered    |-> is_covered,
                                 matched_tests |-> matched_tests ]) ]

RECURSIVE CoverageLoop(_, _, _, _)
\* the loop of lines 139-173 over the changed methods still to visit
CoverageLoop(lists, methods, index, tcs) ==
    IF methods = <<>> THEN lists
    ELSE CoverageLoop(CoverageStep(lists, Head(methods), index, tcs),
                      Tail(methods), index, tcs)

\* A variant of the rounding that cuts the rate off after 4 decimals.
CoverageRatesTruncated(n_covered, total) ==
    IF total > 0 THEN {(10000 * n_covered) \div total} ELSE {0}

\* round(coverage_rate, 4) of lines 175-182, in units of 10^-4: the values
\* the rounding can give
CoverageRates(n_covered, total) ==
    IF total > 0 THEN RoundChoices(10000 * n_covered, total) ELSE {0}

\* A variant without the early return of lines 120-121.
analyze_coverage_unguarded(cm, entries, tcs) ==
    LET lists == CoverageLoop(EmptyLists, cm, MappingIndex(entries), tcs)
    IN  { CoverageResult(Len(cm), lists.covered, lists.uncovered, rate,
                         lists.details, "None") :
            rate \in CoverageRates(Len(lists.covered), Len(cm)) }

\* analyze_coverage(changed_methods, mapping_entries, test_cases): the results
\* the call can return (one, unless the rounding of the rate hits a tie)
analyze_coverage(cm, entries, tcs) ==
    IF cm = <<>>
    THEN { CoverageResult(0, <<>>, <<>>, 0, <<>>, NoChangesError) }
    ELSE LET lists == CoverageLoop(EmptyLists, cm, MappingIndex(entries), tcs)
         IN  { CoverageResult(Len(cm), lists.covered, lists.uncovered, rate,
                              lists.details, "None") :
                 rate \in CoverageRates(Len(lists.covered), Len(cm)) }

----------------------------------------------------------------------------
(* services/scoring_model.py *)
(* A raw score (round(x, 1)) is an integer number of tenths, a weighted     *)
(* score (round(x, 2)) an integer number of hundredths, a weight an integer *)
(* number of hundredths.  A scorer gives the set of DimensionScores the     *)
(* call can return: one, unless a rounding hits a tie.                      *)

WEIGHTS == [coverage |-> 40, completeness |-> 30, clarity |-> 20, boundary |-> 10]

\* the dimension names of lines 68, 93, 153, 215
DimensionNames ==
    [coverage     |-> "u8986u76d6u8303u56f4",
     completeness |-> "u6b65u9aa4u5b8cu6574u6027",
     clarity      |-> "u9884u671fu7ed3u679cu660eu786eu6027",
     boundary     |-> "u8fb9u754cu7528u4f8b"]

DimensionScore(dimension, score, weight, weighted_score) ==
    [dimension |-> dimension, score |-> score, weight |-> weight,
     weighted_score |-> weighted_score]

\* tc.get(key, tc.get(key_cn, ""))
RowGet(tc, key, key_cn) == DictGet(tc, key, DictGet(tc, key_cn, <<>>))

\* any(w in text for w in words), sum(1 for w in words if w in text)
CountWords(words, text) ==
    Cardinality({ i \in 1..Len(words) : IsSubstr(words[i], text) })

AnyWord(words, text) == \E i \in 1..Len(words) : IsSubstr(words[i], text)

Digits == {"0", "1", "2", "3", "4", "5", "6", "7", "8", "9"}

\* [\.、\)] of the first pattern of _count_steps
StepMarks == {".", "u3001", ")"}

\* end of the run of digits that starts at position i of s
RECURSIVE DigitsEnd(_, _)
DigitsEnd(s, i) ==
    IF i + 1 <= Len(s) /\ s[i + 1] \in Digits THEN DigitsEnd(s, i + 1) ELSE i

RECURSIVE FindNumbered(_, _)
\* len(re.findall(r'\d+[\.、\)]', s)), scanning from position i
FindNumbered(s, i) ==
    IF i > Len(s) THEN 0
    ELSE IF s[i] \in Digits
              /\ DigitsEnd(s, i) + 1 <= Len(s)
              /\ s[DigitsEnd(s, i) + 1] \in StepMarks
         THEN 1 + FindNumbered(s, DigitsEnd(s, i) + 2)
         ELSE FindNumbered(s, i + 1)

RECURSIVE FindStepWord(_, _)
\* len(re.findall(r'步骤\d+', s)), scanning from position i
FindStepWord(s, i) ==
    IF i > Len(s) THEN 0
    ELSE IF i + 2 <= Len(s) /\ s[i] = "u6b65" /\ s[i + 1] = "u9aa4" /\ s[i + 2] \in Digits
         THEN 1 + FindStepWord(s, DigitsEnd(s, i + 2) + 1)
         ELSE FindStepWord(s, i + 1)

RECURSIVE SplitOnLoop(_, _, _)
\* str.split(sep) for a one-character separator: the parts between the
\* separators, empty ones included; part is the one being read
SplitOnLoop(s, sep, part) ==
    IF s = <<>> THEN <<part>>
    ELSE IF Head(s) = sep THEN <<part>> \o SplitOnLoop(Tail(s), sep, <<>>)
         ELSE SplitOnLoop(Tail(s), sep, Append(part, Head(s)))

SplitOn(s, sep) == SplitOnLoop(s, sep, <<>>)

\* p.strip() is not empty
NotBlank(part) == \E i \in 1..Len(part) : part[i] \notin WhitespaceChars

\* A variant of _count_steps that adds the two patterns' counts up.
count_steps_added(steps_text) ==
    LET count == FindNumbered(steps_text, 1) + FindStepWord(steps_text, 1)
        parts == SplitOn(ReplaceChar(ReplaceChar(steps_text, ";", "NL"), "uff1b", "NL"), "NL")
    IN  IF count = 0
        THEN Cardinality({ i \in 1..Len(parts) : NotBlank(parts[i]) })
        ELSE count

\* _count_steps(steps_text)
count_steps(steps_text) ==
    LET count == Max(FindNumbered(steps_text, 1), FindStepWord(steps_text, 1))
        parts == SplitOn(ReplaceChar(ReplaceChar(steps_text, ";", "NL"), "uff1b", "NL"), "NL")
    IN  IF count = 0
        THEN Cardinality({ i \in 1..Len(parts) : NotBlank(parts[i]) })
        ELSE count

\* line 118
action_words ==
    << <<"u8f93", "u5165">>, <<"u70b9", "u51fb">>, <<"u9009", "u62e9">>,
       <<"u9a8c", "u8bc1">>, <<"u68c0", "u67e5">>, <<"u6253", "u5f00">>,
       <<"u63d0", "u4ea4">>, <<"u786e", "u8ba4">>, <<"u4fee", "u6539">>,
       <<"u5220", "u9664">> >>

\* lines 169-170
verify_words ==
    << <<"u6210", "u529f">>, <<"u5931", "u8d25">>, <<"u663e", "u793a">>,
       <<"u5305", "u542b">>, <<"u7b49", "u4e8e">>, <<"u4e0d", "u4e3a", "u7a7a">>,
       <<"u8fd4", "u56de">>, <<"u8df3", "u8f6c">>, <<"u63d0", "u793a">>,
       <<"u9519", "u8bef">>, <<"u6b63", "u786e">>, <<"u5b58", "u5728">> >>

\* lines 223-225
boundary_words ==
    << <<"u5f02", "u5e38">>, <<"u8fb9", "u754c">>, <<"u7a7a">>, <<"n", "u", "l", "l">>,
       <<"u4e3a", "u7a7a">>, <<"u4e0d", "u5b58", "u5728">>, <<"u8d85", "u957f">>,
       <<"u8d85", "u65f6">>, <<"u91cd", "u590d">>, <<"u5e76", "u53d1">>,
       <<"u8d1f", "u6570">>, <<"u6700", "u5927">>, <<"u6700", "u5c0f">>,
       <<"u7279", "u6b8a", "u5b57", "u7b26">>, <<"u65e0", "u6548">>,
       <<"u975e", "u6cd5">>, <<"u9519", "u8bef">>, <<"u5931", "u8d25">> >>

RECURSIVE SumSeq(_)
SumSeq(xs) == IF xs = <<>> THEN 0 ELSE Head(xs) + SumSeq(Tail(xs))

\* A variant of score_coverage without the cap at 100.
score_coverage_uncapped(total, covered) ==
    IF total = 0
    THEN { DimensionScore(DimensionNames.coverage, 1000, WEIGHTS.coverage,
                          100 * WEIGHTS.coverage) }
    ELSE { DimensionScore(DimensionNames.coverage, s, WEIGHTS.coverage, w) :
             s \in RoundChoices(1000 * covered, total),
             w \in RoundChoices(100 * covered * WEIGHTS.coverage, total) }

\* score_coverage(total_changed_methods, covered_count)
score_coverage(total, covered) ==
    IF total = 0
    THEN { DimensionScore(DimensionNames.coverage, 1000, WEIGHTS.coverage,
                          100 * WEIGHTS.coverage) }
    ELSE IF covered >= total      \* min(100.0, rate * 100) is 100.0
    THEN { DimensionScore(DimensionNames.coverage, 1000, WEIGHTS.coverage,
                          100 * WEIGHTS.coverage) }
    ELSE { DimensionScore(DimensionNames.coverage, s, WEIGHTS.coverage, w) :
             s \in RoundChoices(1000 * covered, total),
             w \in RoundChoices(100 * covered * WEIGHTS.coverage, total) }

\* the case_score of lines 102-121
CompletenessCaseScore(tc) ==
    LET steps == RowGet(tc, KeySteps, KeyStepsCn)
        step_count == count_steps(steps)
    IN  IF steps = <<>> THEN 0
        ELSE 30
             + (IF step_count >= 3 THEN 40
                ELSE IF step_count >= 2 THEN 25
                ELSE IF step_count >= 1 THEN 10 ELSE 0)
             + (IF AnyWord(action_words, steps) THEN 30 ELSE 0)

\* the dimension of a mean of case scores: sum / n, the mean rounded to one
\* decimal and the weighted mean rounded to two
MeanDimension(name, weight, sum, n) ==
    { DimensionScore(name, s, weight, w) :
        s \in RoundChoices(10 * sum, n),
        w \in RoundChoices(sum * weight, n) }

\* score_completeness(test_cases)
score_completeness(tcs) ==
    IF tcs = <<>>
    THEN { DimensionScore(DimensionNames.completeness, 0, WEIGHTS.completeness, 0) }
    ELSE MeanDimension(DimensionNames.completeness, WEIGHTS.completeness,
                       SumSeq([i \in 1..Len(tcs) |-> CompletenessCaseScore(tcs[i])]),
                       Len(tcs))

\* A variant of the case score that asks for more than 10 characters.
ClarityCaseScoreLonger(tc) ==
    LET expected == RowGet(tc, KeyExpected, KeyExpectedCn)
        matches == CountWords(verify_words, expected)
    IN  IF expected = <<>> THEN 0
        ELSE 40
             + (IF matches >= 2 THEN 40 ELSE IF matches >= 1 THEN 25 ELSE 0)
             + (IF Len(expected) > 10 THEN 20 ELSE IF Len(expected) >= 5 THEN 10 ELSE 0)

\* the case_score of lines 162-181
ClarityCaseScore(tc) ==
    LET expected == RowGet(tc, KeyExpected, KeyExpectedCn)
        matches == CountWords(verify_words, expected)
    IN  IF expected = <<>> THEN 0
        ELSE 40
             + (IF matches >= 2 THEN 40 ELSE IF matches >= 1 THEN 25 ELSE 0)
             + (IF Len(expected) >= 10 THEN 20 ELSE IF Len(expected) >= 5 THEN 10 ELSE 0)

\* A variant of score_clarity that carries the weight of completeness.
score_clarity_other_weight(tcs) ==
    IF tcs = <<>>
    THEN { DimensionScore(DimensionNames.clarity, 0, WEIGHTS.completeness, 0) }
    ELSE MeanDimension(DimensionNames.clarity, WEIGHTS.completeness,
                       SumSeq([i \in 1..Len(tcs) |-> ClarityCaseScore(tcs[i])]),
                       Len(tcs))

\* score_clarity(test_cases)
score_clarity(tcs) ==
    IF tcs = <<>>
    THEN { DimensionScore(DimensionNames.clarity, 0, WEIGHTS.clarity, 0) }
    ELSE MeanDimension(DimensionNames.clarity, WEIGHTS.clarity,
                       SumSeq([i \in 1..Len(tcs) |-> ClarityCaseScore(tcs[i])]),
                       Len(tcs))

\* lines 229-234: the case mentions a boundary word
IsBoundaryCase(tc) ==
    LET func == RowGet(tc, KeyFunction, KeyFunctionCn)
        steps == RowGet(tc, KeySteps, KeyStepsCn)
        expected == RowGet(tc, KeyExpected, KeyExpectedCn)
        combined == func \o <<" ">> \o steps \o <<" ">> \o expected
    IN  AnyWord(boundary_words, combined)

\* A variant of the raw score whose best ratio must exceed 3.
BoundaryRawScoreAboveThree(tcs, total) ==
    LET n == Len(tcs)
        boundary_count == Cardinality({ i \in 1..n : IsBoundaryCase(tcs[i]) })
        share == IF n = 0 THEN 0
                 ELSE IF 10 * boundary_count >= 3 * n THEN 50
                 ELSE IF 100 * boundary_count >= 15 * n THEN 30
                 ELSE IF boundary_count >= 1 THEN 15 ELSE 0
        ratio == IF total > 0
                 THEN (IF n > 3 * total THEN 50
                       ELSE IF n >= 2 * total THEN 35
                       ELSE IF n >= total THEN 20 ELSE 10)
                 ELSE 25
    IN  Min(100, share + ratio)

\* the raw score of lines 238-264
BoundaryRawScore(tcs, total) ==
    LET n == Len(tcs)
        boundary_count == Cardinality({ i \in 1..n : IsBoundaryCase(tcs[i]) })
        share == IF n = 0 THEN 0
                 ELSE IF 10 * boundary_count >= 3 * n THEN 50
                 ELSE IF 100 * boundary_count >= 15 * n THEN 30
                 ELSE IF boundary_count >= 1 THEN 15 ELSE 0
        ratio == IF total > 0
                 THEN (IF n >= 3 * total THEN 50
                       ELSE IF n >= 2 * total THEN 35
                       ELSE IF n >= total THEN 20 ELSE 10)
                 ELSE 25
    IN  Min(100, share + ratio)

\* A variant of score_boundary without the early return of lines 213-220.
score_boundary_unguarded(tcs, total) ==
    LET raw_score == BoundaryRawScore(tcs, total)
    IN  { DimensionScore(DimensionNames.boundary, 10 * raw_score, WEIGHTS.boundary,
                         raw_score * WEIGHTS.boundary) }

\* score_boundary(test_cases, total_changed_methods)
score_boundary(tcs, total) ==
    IF tcs = <<>>
    THEN { DimensionScore(DimensionNames.boundary, 0, WEIGHTS.boundary, 0) }
    ELSE LET raw_score == BoundaryRawScore(tcs, total)
         IN  { DimensionScore(DimensionNames.boundary, 10 * raw_score, WEIGHTS.boundary,
                              raw_score * WEIGHTS.boundary) }

\* A variant of _get_grade whose first threshold is exclusive.
get_grade_above(score) ==
    IF score > 900 THEN "A"
    ELSE IF score >= 800 THEN "B"
    ELSE IF score >= 600 THEN "C"
    ELSE IF score >= 400 THEN "D"
    ELSE "F"

\* _get_grade(score), the score in tenths
get_grade(score) ==
    IF score >= 900 THEN "A"
    ELSE IF score >= 800 THEN "B"
    ELSE IF score >= 600 THEN "C"
    ELSE IF score >= 400 THEN "D"
    ELSE "F"

\* the sentences of lines 350-356, each written as its code points
summaries ==
    [ A |-> "u6d4bu8bd5u7528u4f8bu8d28u91cfu4f18u79c0uff0cu8986u76d6u5168u9762u4e14u6b65u9aa4u6e05u6670",
      B |-> "u6d4bu8bd5u7528u4f8bu8d28u91cfu826fu597duff0cu5efau8baeu8865u5145u90e8u5206u8fb9u754cu573au666f",
      C |-> "u6d4bu8bd5u7528u4f8bu57fau672cu5408u683cuff0cu5efau8baeu52a0u5f3au8986u76d6u8303u56f4u548cu6b65u9aa4u7ec6u8282",
      D |-> "u6d4bu8bd5u7528u4f8bu4e0du8db3uff0cu9700u8981u5927u5e45u8865u5145u6539u8fdb",
      F |-> "u6d4bu8bd5u7528u4f8bu4e25u91cdu4e0du8db3uff0cu5efau8baeu5168u9762u91cdu65b0u7f16u5199" ]

\* _get_summary(score, grade): summaries.get(grade, "")
get_summary(score, grade) ==
    IF grade \in DOMAIN summaries THEN summaries[grade] ELSE ""

ScoreResult(total, dimensions) ==
    [ total_score |-> total,
      dimensions  |-> dimensions,
      grade       |-> get_grade(total),
      summary     |-> get_summary(total, get_grade(total)),
      error       |-> "None" ]

DefaultScoreResult ==
    [ total_score |-> 0, dimensions |-> <<>>, grade |-> "", summary |-> "",
      error |-> "None" ]

\* A variant of calculate_score that adds the raw scores up.
calculate_score_of_raw(total_changed, covered, tcs) ==
    UNION { { ScoreResult(t, <<d1, d2, d3, d4>>) :
                t \in RoundChoices(Min(10000, Max(0, 10 * (d1.score + d2.score
                                        + d3.score + d4.score))), 10) } :
            d1 \in score_coverage(total_changed, covered),
            d2 \in score_completeness(tcs),
            d3 \in score_clarity(tcs),
            d4 \in score_boundary(tcs, total_changed) }

\* calculate_score(total_changed_methods, covered_count, test_cases): the
\* results the call can return
calculate_score(total_changed, covered, tcs) ==
    UNION { { ScoreResult(t, <<d1, d2, d3, d4>>) :
                t \in RoundChoices(Min(10000, Max(0, d1.weighted_score + d2.weighted_score
                                        + d3.weighted_score + d4.weighted_score)), 10) } :
            d1 \in score_coverage(total_changed, covered),
            d2 \in score_completeness(tcs),
            d3 \in score_clarity(tcs),
            d4 \in score_boundary(tcs, total_changed) }

----------------------------------------------------------------------------
(* services/diff_analyzer.py *)
(* A text is its sequence of characters, a line the characters of the line  *)
(* with its newline.  Positions of lines are Python's: counted from 0, a    *)
(* range i1..i2 holding the lines i1 up to but without i2.                  *)

Chars(str) ==
    CASE str = "package " -> <<"p", "a", "c", "k", "a", "g", "e", " ">>
      [] str = "unknown" -> <<"u", "n", "k", "n", "o", "w", "n">>
      [] str = "--- history" -> <<"-", "-", "-", " ", "h", "i", "s", "t", "o", "r", "y">>
      [] str = "+++ current" -> <<"+", "+", "+", " ", "c", "u", "r", "r", "e", "n", "t">>
      [] str = "+++" -> <<"+", "+", "+">>
      [] str = "---" -> <<"-", "-", "-">>
      [] str = "@@" -> <<"@", "@">>
      [] str = "current" -> <<"c", "u", "r", "r", "e", "n", "t">>
      [] str = "history" -> <<"h", "i", "s", "t", "o", "r", "y">>

\* str.startswith(prefix)
StartsWith(s, prefix) ==
    Len(s) >= Len(prefix) /\ SubSeq(s, 1, Len(prefix)) = prefix

RECURSIVE RStripChar(_, _)
\* str.rstrip(c) for one character c
RStripChar(s, c) ==
    IF s # <<>> /\ s[Len(s)] = c THEN RStripChar(SubSeq(s, 1, Len(s) - 1), c) ELSE s

RECURSIVE PackageLoop(_)
\* the loop of lines 81-87 over the lines still to read
PackageLoop(lines) ==
    IF lines = <<>> THEN Chars("unknown")
    ELSE LET stripped == Strip(Head(lines))
             path == Strip(RStripChar(SubSeq(stripped, Len(Chars("package ")) + 1,
                                             Len(stripped)), ";"))
         IN  IF StartsWith(stripped, Chars("package ")) /\ path # <<>>
             THEN path
             ELSE PackageLoop(Tail(lines))

\* extract_package_path(code)
extract_package_path(code) == PackageLoop(SplitOn(code, "NL"))

RECURSIVE SplitLinesLoop(_, _)
\* str.splitlines(keepends=True): the lines with their newline, the last one
\* without when the text does not end in one; line is the one being read
SplitLinesLoop(s, line) ==
    IF s = <<>> THEN (IF line = <<>> THEN <<>> ELSE <<line>>)
    ELSE IF Head(s) = "NL" THEN <<Append(line, "NL")>> \o SplitLinesLoop(Tail(s), <<>>)
         ELSE SplitLinesLoop(Tail(s), Append(line, Head(s)))

SplitLines(s) == SplitLinesLoop(s, <<>>)

\* A variant of the longest match that never finds one.
find_longest_match_none(a, b, alo, ahi, blo, bhi) == <<alo, blo, 0>>

\* difflib.SequenceMatcher.find_longest_match without junk: the longest block
\* a[i:i+k] = b[j:j+k] within the ranges, of the longest ones the one that
\* starts earliest in a, of those the one that starts earliest in b
find_longest_match(a, b, alo, ahi, blo, bhi) ==
    LET blocks == { m \in (alo..(ahi - 1)) \X (blo..(bhi - 1)) \X (1..Min(ahi - alo, bhi - blo)) :
                      /\ m[1] + m[3] <= ahi
                      /\ m[2] + m[3] <= bhi
                      /\ SubSeq(a, m[1] + 1, m[1] + m[3]) = SubSeq(b, m[2] + 1, m[2] + m[3]) }
    IN  IF blocks = {} THEN <<alo, blo, 0>>
        ELSE CHOOSE m \in blocks :
                \A other \in blocks :
                    \/ m[3] > other[3]
                    \/ m[3] = other[3] /\ m[1] < other[1]
                    \/ m[3] = other[3] /\ m[1] = other[1] /\ m[2] <= other[2]

RECURSIVE MatchingBlocksIn(_, _, _, _, _, _)
\* the blocks that get_matching_blocks finds within the ranges, in order
MatchingBlocksIn(a, b, alo, ahi, blo, bhi) ==
    LET m == find_longest_match(a, b, alo, ahi, blo, bhi)
        i == m[1]
        j == m[2]
        k == m[3]
    IN  IF k = 0 THEN <<>>
        ELSE (IF alo < i /\ blo < j THEN MatchingBlocksIn(a, b, alo, i, blo, j) ELSE <<>>)
             \o <<m>>
             \o (IF i + k < ahi /\ j + k < bhi
                 THEN MatchingBlocksIn(a, b, i + k, ahi, j + k, bhi) ELSE <<>>)

\* get_matching_blocks(): the blocks and the closing block of size 0
get_matching_blocks(a, b) ==
    MatchingBlocksIn(a, b, 0, Len(a), 0, Len(b)) \o << <<Len(a), Len(b), 0>> >>

Opcode(tag, i1, i2, j1, j2) == [tag |-> tag, i1 |-> i1, i2 |-> i2, j1 |-> j1, j2 |-> j2]

RECURSIVE OpcodesLoop(_, _, _)
\* the loop of get_opcodes over the blocks still to visit, i and j the
\* positions reached in a and b
OpcodesLoop(blocks, i, j) ==
    IF blocks = <<>> THEN <<>>
    ELSE LET ai == Head(blocks)[1]
             bj == Head(blocks)[2]
             size == Head(blocks)[3]
             tag == IF i < ai /\ j < bj THEN "replace"
                    ELSE IF i < ai THEN "delete"
                    ELSE IF j < bj THEN "insert" ELSE ""
         IN  (IF tag # "" THEN <<Opcode(tag, i, ai, j, bj)>> ELSE <<>>)
             \o (IF size > 0 THEN <<Opcode("equal", ai, ai + size, bj, bj + size)>> ELSE <<>>)
             \o OpcodesLoop(Tail(blocks), ai + size, bj + size)

get_opcodes(a, b) == OpcodesLoop(get_matching_blocks(a, b), 0, 0)

\* the lines of context kept around a change (n = 3 of unified_diff)
ContextLines == 3

\* the fix-up of the first and the last opcode when they show no change
TrimEnds(codes) ==
    LET n == ContextLines
        first == codes[1]
        headFixed == IF first.tag = "equal"
                     THEN [codes EXCEPT ![1] = Opcode("equal", Max(first.i1, first.i2 - n), first.i2,
                                                      Max(first.j1, first.j2 - n), first.j2)]
                     ELSE codes
        last == headFixed[Len(headFixed)]
    IN  IF last.tag = "equal"
        THEN [headFixed EXCEPT ![Len(headFixed)] =
                 Opcode("equal", last.i1, Min(last.i2, last.i1 + n), last.j1, Min(last.j2, last.j1 + n))]
        ELSE headFixed

RECURSIVE GroupLoop(_, _)
\* the loop of get_grouped_opcodes over the opcodes still to visit, group the
\* group being filled; the result is the sequence of groups yielded
GroupLoop(codes, group) ==
    IF codes = <<>>
    THEN (IF group # <<>> /\ ~(Len(group) = 1 /\ group[1].tag = "equal") THEN <<group>> ELSE <<>>)
    ELSE LET n == ContextLines
             c == Head(codes)
         IN  IF c.tag = "equal" /\ c.i2 - c.i1 > n + n
             THEN <<Append(group, Opcode("equal", c.i1, Min(c.i2, c.i1 + n), c.j1, Min(c.j2, c.j1 + n)))>>
                  \o GroupLoop(Tail(codes),
                               <<Opcode("equal", Max(c.i1, c.i2 - n), c.i2, Max(c.j1, c.j2 - n), c.j2)>>)
             ELSE GroupLoop(Tail(codes), Append(group, c))

\* get_grouped_opcodes(3)
get_grouped_opcodes(a, b) ==
    LET codes == get_opcodes(a, b)
    IN  GroupLoop(TrimEnds(IF codes = <<>> THEN <<Opcode("equal", 0, 1, 0, 1)>> ELSE codes), <<>>)

RECURSIVE DecimalChars(_)
\* str(n) for a natural number
DecimalChars(n) ==
    LET digit == <<"0", "1", "2", "3", "4", "5", "6", "7", "8", "9">>[(n % 10) + 1]
    IN  IF n < 10 THEN <<digit>> ELSE Append(DecimalChars(n \div 10), digit)

\* difflib._format_range_unified(start, stop)
format_range_unified(start, stop) ==
    LET beginning == start + 1
        length == stop - start
    IN  IF length = 1 THEN DecimalChars(beginning)
        ELSE DecimalChars(IF length = 0 THEN beginning - 1 ELSE beginning)
             \o <<",">> \o DecimalChars(length)

\* each line of the sequence with the prefix in front
Prefixed(prefix, lines) == [i \in 1..Len(lines) |-> <<prefix>> \o lines[i]]

RECURSIVE GroupLines(_, _, _)
\* the lines unified_diff yields for the opcodes of one group
GroupLines(a, b, group) ==
    IF group = <<>> THEN <<>>
    ELSE LET c == Head(group)
             from == SubSeq(a, c.i1 + 1, c.i2)
             to == SubSeq(b, c.j1 + 1, c.j2)
         IN  (IF c.tag = "equal" THEN Prefixed(" ", from)
              ELSE (IF c.tag \in {"replace", "delete"} THEN Prefixed("-", from) ELSE <<>>)
                   \o (IF c.tag \in {"replace", "insert"} THEN Prefixed("+", to) ELSE <<>>))
             \o GroupLines(a, b, Tail(group))

RECURSIVE HunkLines(_, _, _)
\* the hunk header and the lines of every group
HunkLines(a, b, groups) ==
    IF groups = <<>> THEN <<>>
    ELSE LET group == Head(groups)
             first == group[1]
             last == group[Len(group)]
         IN  << Chars("@@") \o <<" ", "-">> \o format_range_unified(first.i1, last.i2)
                \o <<" ", "+">> \o format_range_unified(first.j1, last.j2)
                \o <<" ">> \o Chars("@@") >>
             \o GroupLines(a, b, group)
             \o HunkLines(a, b, Tail(groups))

\* difflib.unified_diff(a, b, fromfile="history", tofile="current", lineterm="")
unified_diff(a, b) ==
    LET groups == get_grouped_opcodes(a, b)
    IN  IF groups = <<>> THEN <<>>
        ELSE <<Chars("--- history"), Chars("+++ current")>> \o HunkLines(a, b, groups)

DiffResult(package_path, added_lines, removed_lines, changed_lines) ==
    [package_path |-> package_path, added_lines |-> added_lines,
     removed_lines |-> removed_lines, changed_lines |-> changed_lines]

\* the test of line 121
IsHeaderLine(line) ==
    StartsWith(line, Chars("+++")) \/ StartsWith(line, Chars("---")) \/ StartsWith(line, Chars("@@"))

RECURSIVE ClassifyLoop(_, _)
\* the loop of lines 120-128: the diff lines still to read and the result so
\* far, a record of the lists added, removed and changed
ClassifyLoop(diff, acc) ==
    IF diff = <<>> THEN acc
    ELSE LET line == Head(diff)
         IN  ClassifyLoop(Tail(diff),
                 IF IsHeaderLine(line)
                 THEN [acc EXCEPT !.changed = Append(@, line)]
                 ELSE IF StartsWith(line, <<"+">>)
                 THEN [acc EXCEPT !.added = Append(@, Tail(line)), !.changed = Append(@, line)]
                 ELSE IF StartsWith(line, <<"-">>)
                 THEN [acc EXCEPT !.removed = Append(@, Tail(line)), !.changed = Append(@, line)]
                 ELSE acc)

\* compute_diff(current_code, history_code)
compute_diff(current, history) ==
    LET package_path == extract_package_path(current)
        current_lines == SplitLines(current)
        history_lines == SplitLines(history)
        diff == unified_diff(history_lines, current_lines)
        lists == ClassifyLoop(diff, [added |-> <<>>, removed |-> <<>>, changed |-> <<>>])
    IN  DiffResult(package_path, lists.added, lists.removed, lists.changed)

(* The content handed to parse_code_changes is modelled by what json.loads  *)
(* makes of it: kind "invalid" for a text that is no JSON document, else    *)
(* kind "json" and the value.  A value has a type; an object has fields (a  *)
(* function from names to values), an array has items, a string has text.   *)

JObject(fields) == [type |-> "object", fields |-> fields, items |-> <<>>, text |-> <<>>]
JArray(items) == [type |-> "array", fields |-> <<>>, items |-> items, text |-> <<>>]
JString(text) == [type |-> "string", fields |-> <<>>, items |-> <<>>, text |-> text]
JNumber == [type |-> "number", fields |-> <<>>, items |-> <<>>, text |-> <<>>]
JNull == [type |-> "null", fields |-> <<>>, items |-> <<>>, text |-> <<>>]

\* the messages of lines 48, 51, 60 and 66, each written as its code points;
\* the first is followed by the decoder's own text
MsgParseFailed == "JSONu89e3u6790u5931u8d25: "
MsgRootNotObject == "JSONu6839u5143u7d20u5fc5u987bu662fu5bf9u8c61"
MsgMissingFields == "JSONu5fc5u987bu5305u542b 'current' u548c 'history' u5b57u6bb5"
MsgNotArrays == "'current' u548c 'history' u5fc5u987bu662fu6570u7ec4"

\* the outcome of a call: what it raises ("None" when it returns), the
\* message of the exception, and the lists returned
Parsed(current, history) ==
    [raises |-> "None", message |-> "", current |-> current, history |-> history]
Raise(exception, message) ==
    [raises |-> exception, message |-> message, current |-> <<>>, history |-> <<>>]

\* whether Python can evaluate  name in inner : not for a number or null
CanContain(inner) == inner.type \in {"object", "array", "string"}

\* name in inner : a key of an object, an element of an array, a part of a
\* string
ContainsName(inner, name) ==
    CASE inner.type = "object" -> name \in DOMAIN inner.fields
      [] inner.type = "array" ->
            \E i \in 1..Len(inner.items) :
                inner.items[i].type = "string" /\ inner.items[i].text = Chars(name)
      [] inner.type = "string" -> IsSubstr(Chars(name), inner.text)
      [] OTHER -> FALSE

\* parse_code_changes(json_content)
parse_code_changes(content) ==
    IF content.kind = "invalid" THEN Raise("ValueError", MsgParseFailed)
    ELSE LET data == content.value
             inner == IF data.type = "object" /\ "data" \in DOMAIN data.fields
                      THEN data.fields["data"] ELSE data
         IN  IF data.type # "object" THEN Raise("ValueError", MsgRootNotObject)
             ELSE IF ~CanContain(inner) THEN Raise("TypeError", "")
             ELSE IF ~ContainsName(inner, "current") \/ ~ContainsName(inner, "history")
             THEN Raise("ValueError", MsgMissingFields)
             ELSE IF inner.type # "object" THEN Raise("TypeError", "")
             ELSE IF inner.fields["current"].type # "array" \/ inner.fields["history"].type # "array"
             THEN Raise("ValueError", MsgNotArrays)
             ELSE Parsed(inner.fields["current"].items, inner.fields["history"].items)

AnalysisResult(diffs, total_added, total_removed, error) ==
    [diffs |-> diffs, total_added |-> total_added, total_removed |-> total_removed,
     error |-> error]

\* the outcome of analyze_code_changes: what it raises ("None" when it
\* returns), the result returned, and the number of calls of compute_diff
Outcome(raises, result, calls) == [raises |-> raises, result |-> result, calls |-> calls]

\* current_list[i] if i < len(current_list) else "", i counted from 1
CodeAt(list, i) == IF i <= Len(list) THEN list[i] ELSE JString(<<>>)

\* A variant of the choice of lines 163-164 that stops at the shorter list.
PairCountShorter(current_list, history_list) == Min(Len(current_list), Len(history_list))

\* max_len of line 161
PairCount(current_list, history_list) == Max(Len(current_list), Len(history_list))

RECURSIVE AnalyzeLoop(_, _, _, _, _)
\* the loop of lines 162-169 from pair i on, acc the result so far
AnalyzeLoop(current_list, history_list, i, max_len, acc) ==
    IF i > max_len THEN Outcome("None", acc, i - 1)
    ELSE LET current_i == CodeAt(current_list, i)
             history_i == CodeAt(history_list, i)
         IN  IF current_i.type # "string" \/ history_i.type # "string"
             THEN \* code.split or code.splitlines of a value that is no string
                  Outcome("AttributeError", AnalysisResult(<<>>, 0, 0, "None"), i)
             ELSE LET diff_result_i == compute_diff(current_i.text, history_i.text)
                  IN  AnalyzeLoop(current_list, history_list, i + 1, max_len,
                          AnalysisResult(Append(acc.diffs, diff_result_i),
                                         acc.total_added + Len(diff_result_i.added_lines),
                                         acc.total_removed + Len(diff_result_i.removed_lines),
                                         "None"))

\* analyze_code_changes(json_content)
analyze_code_changes(content) ==
    LET parsed == parse_code_changes(content)
    IN  IF parsed.raises = "ValueError"
        THEN Outcome("None", AnalysisResult(<<>>, 0, 0, parsed.message), 0)
        ELSE IF parsed.raises # "None"
        THEN Outcome(parsed.raises, AnalysisResult(<<>>, 0, 0, "None"), 0)
        ELSE AnalyzeLoop(parsed.current, parsed.history, 1,
                         PairCount(parsed.current, parsed.history),
                         AnalysisResult(<<>>, 0, 0, "None"))

(* format_diff_summary.  The summary is a sequence of tokens: a fixed piece  *)
(* of text of the f-strings is one token (written as its code points), a    *)
(* number its decimal digits, an error message one token, a line of code    *)
(* and a package path their characters, and "NL" joins the lines.           *)

\* the number of lines of a list that the summary shows (lines 202, 209)
ShownLines == 10

\* the first n elements of a list: list[:n]
FirstOf(list, n) == SubSeq(list, 1, Min(n, Len(list)))

\* the lines of lines 200-205 (sign "+") and 207-212 (sign "-") for one list
ListedLines(list, title, sign) ==
    IF list = <<>> THEN <<>>
    ELSE << <<title>> >>
         \o [k \in 1..Len(FirstOf(list, ShownLines)) |-> <<sign>> \o RStrip(list[k])]
         \o (IF Len(list) > ShownLines
             THEN << <<"    ... u8fd8u6709 ">> \o DecimalChars(Len(list) - ShownLines) \o <<" u884c">> >>
             ELSE <<>>)

\* A variant of the lines of a file that shows the last lines of the lists.
FileLinesLast(i, diff) ==
    LET lastOf(list) == SubSeq(list, Max(1, Len(list) - ShownLines + 1), Len(list))
    IN  << <<"### u6587u4ef6 ">> \o DecimalChars(i) \o <<": ">> \o diff.package_path,
           <<"  u65b0u589e ">> \o DecimalChars(Len(diff.added_lines))
               \o <<" u884c, u5220u9664 ">> \o DecimalChars(Len(diff.removed_lines)) \o <<" u884c">> >>
        \o ListedLines(lastOf(diff.added_lines), "  u65b0u589eu5185u5bb9:", "    + ")
        \o ListedLines(lastOf(diff.removed_lines), "  u5220u9664u5185u5bb9:", "    - ")
        \o << <<>> >>

\* the lines of lines 197-214 for the i-th diff
FileLines(i, diff) ==
    << <<"### u6587u4ef6 ">> \o DecimalChars(i) \o <<": ">> \o diff.package_path,
       <<"  u65b0u589e ">> \o DecimalChars(Len(diff.added_lines))
           \o <<" u884c, u5220u9664 ">> \o DecimalChars(Len(diff.removed_lines)) \o <<" u884c">> >>
    \o ListedLines(diff.added_lines, "  u65b0u589eu5185u5bb9:", "    + ")
    \o ListedLines(diff.removed_lines, "  u5220u9664u5185u5bb9:", "    - ")
    \o << <<>> >>

RECURSIVE JoinLines(_)
\* "\n".join(lines)
JoinLines(lines) ==
    IF lines = <<>> THEN <<>>
    ELSE IF Len(lines) = 1 THEN lines[1]
    ELSE lines[1] \o <<"NL">> \o JoinLines(Tail(lines))

\* format_diff_summary(result)
format_diff_summary(result) ==
    IF result.error \notin {"None", ""}
    THEN <<"u5206u6790u9519u8bef: ", result.error>>
    ELSE JoinLines(
             << <<"u5171u68c0u6d4bu5230 ">> \o DecimalChars(Len(result.diffs)) \o <<" u4e2au4ee3u7801u6587u4ef6u53d8u66f4">>,
                <<"u603bu65b0u589e ">> \o DecimalChars(result.total_added)
                    \o <<" u884cuff0cu603bu5220u9664 ">> \o DecimalChars(result.total_removed)
                    \o <<" u884c">>,
                <<>> >>
             \o Flatten([i \in 1..Len(result.diffs) |-> FileLines(i, result.diffs[i])]))

----------------------------------------------------------------------------
(* deepseek_client.py: call_deepseek.  A call of                            *)
(* client.chat.completions.create gives a response or raises an exception;  *)
(* both are records with the field raised, "None" for a response.           *)

MAX_RETRIES == 1

\* the messages of lines 106, 121, 129, 152, 156, 160, 164 and 166
MsgNoClient == "DeepSeeku5ba2u6237u7aefu521du59cbu5316u5931u8d25uff0cu8bf7u68c0u67e5API Keyu914du7f6e"
MsgEmptyContent == "AIu8fd4u56deu7a7au7ed3u679cuff0cu8bf7u7a0du540eu91cdu8bd5"
MsgBadJson == "AIu8fd4u56deu683cu5f0fu5f02u5e38uff0cu8bf7u7a0du540eu91cdu8bd5"
MsgTimeout == "AIu5206u6790u8d85u65f6uff0cu8bf7u51cfu5c11u5206u6790u8303u56f4u540eu91cdu8bd5"
MsgRateLimit == "u8bf7u6c42u9891u7387u8d85u9650uff0cu8bf7u7a0du540eu91cdu8bd5"
MsgApiError == "AIu670du52a1u5f02u5e38: "
MsgException == "u8c03u7528u5f02u5e38: "
MsgCallFailed == "AIu8c03u7528u5931u8d25uff0cu8bf7u7a0du540eu91cdu8bd5"

\* the classes of the openai package and of Python a class derives from,
\* itself included
Bases(class) ==
    CASE class = "APITimeoutError" ->
             {"APITimeoutError", "APIConnectionError", "APIError", "OpenAIError", "Exception"}
      [] class = "APIConnectionError" -> {"APIConnectionError", "APIError", "OpenAIError", "Exception"}
      [] class = "RateLimitError" ->
             {"RateLimitError", "APIStatusError", "APIError", "OpenAIError", "Exception"}
      [] class = "APIStatusError" -> {"APIStatusError", "APIError", "OpenAIError", "Exception"}
      [] OTHER -> {class, "Exception"}

\* a response of the API and a raised exception
Response(choices, usage) == [raised |-> "None", message |-> "", choices |-> choices, usage |-> usage]
Raised(class, message) == [raised |-> class, message |-> message, choices |-> <<>>, usage |-> <<>>]

\* the values of response.choices[0].message.content: None, "", and a text
\* that is a JSON document or is not
ContentNone == [kind |-> "None"]
ContentEmpty == [kind |-> "empty"]

\* response.usage: None, or an object with the token counts and its further
\* attributes, a function from their names
UsageNone == [kind |-> "None"]
Usage(prompt, completion, attributes) ==
    [kind |-> "usage", prompt_tokens |-> prompt, completion_tokens |-> completion,
     total_tokens |-> prompt + completion, attributes |-> attributes]

\* the dicts call_deepseek returns
ErrorDict(error) == [keys |-> {"error"}, error |-> error, result |-> <<>>, usage |-> <<>>]
ResultDict(result, usage) == [keys |-> {"result", "usage"}, error |-> "", result |-> result, usage |-> usage]

\* what an iteration of the loop ends in
Return(value) == [ends |-> "return", value |-> value]
Continue == [ends |-> "continue", value |-> <<>>]
Propagate(exception) == [ends |-> "raise", value |-> exception]

\* getattr(response.usage, name, 0)
GetAttr(usage, name) ==
    IF name \in DOMAIN usage.attributes THEN usage.attributes[name] ELSE 0

\* the dict of lines 131-137
UsageDict(usage) ==
    [prompt_tokens |-> usage.prompt_tokens,
     completion_tokens |-> usage.completion_tokens,
     total_tokens |-> usage.total_tokens,
     prompt_cache_hit_tokens |-> GetAttr(usage, "prompt_cache_hit_tokens"),
     prompt_cache_miss_tokens |-> GetAttr(usage, "prompt_cache_miss_tokens")]

\* lines 117-144: the body of the try for a response; an exception raised
\* in it is the result
TryBody(reply, i) ==
    IF reply.choices = <<>> THEN Raised("IndexError", "list index out of range")
    ELSE LET content == reply.choices[1]
         IN  IF content.kind \in {"None", "empty"}
             THEN IF i < MAX_RETRIES THEN Continue ELSE Return(ErrorDict(MsgEmptyContent))
             ELSE IF content.kind = "invalid"
             THEN IF i < MAX_RETRIES THEN Continue ELSE Return(ErrorDict(MsgBadJson))
             ELSE IF reply.usage.kind = "None"
             THEN Raised("AttributeError", "'NoneType' object has no attribute 'prompt_tokens'")
             ELSE Return(ResultDict(content.value, UsageDict(reply.usage)))

\* A variant of the except clauses in which a rate limit is retried like a
\* timeout.
ExceptClausesRetryRateLimit(exception, i) ==
    IF "APITimeoutError" \in Bases(exception.raised) \/ "RateLimitError" \in Bases(exception.raised)
    THEN IF i < MAX_RETRIES THEN Continue ELSE Return(ErrorDict(MsgTimeout))
    ELSE Return(ErrorDict(MsgException \o exception.message))

\* lines 148-166: the except clauses, in their order
ExceptClauses(exception, i) ==
    IF "APITimeoutError" \in Bases(exception.raised)
    THEN IF i < MAX_RETRIES THEN Continue ELSE Return(ErrorDict(MsgTimeout))
    ELSE IF "RateLimitError" \in Bases(exception.raised)
    THEN Return(ErrorDict(MsgRateLimit))
    ELSE IF "APIError" \in Bases(exception.raised)
    THEN Return(ErrorDict(MsgApiError \o exception.message))
    ELSE IF "Exception" \in Bases(exception.raised)
    THEN Return(ErrorDict(MsgException \o exception.message))
    ELSE Propagate(exception)

\* lines 109-166: one iteration of the loop from the reply of create on
Iteration(reply, i) ==
    LET outcome == IF reply.raised = "None" THEN TryBody(reply, i) ELSE reply
    IN  IF "raised" \in DOMAIN outcome THEN ExceptClauses(outcome, i) ELSE outcome

\* get_client(): None without the openai package or without an API key
get_client(imported, key) == IF ~imported \/ key = "" THEN "None" ELSE "client"

----------------------------------------------------------------------------
(* The value of each group of variables while its component is not in use. *)

IdleChange ==
    /\ current_code = [kind |-> "empty", package |-> "", types |-> <<>>]
    /\ history_code = [kind |-> "empty", package |-> "", types |-> <<>>]
    /\ changed = <<>>

IdleCoverage ==
    /\ changed_methods = <<>>
    /\ mapping_entries = <<>>
    /\ test_cases = <<>>
    /\ coverage_result = DefaultCoverageResult

IdleRate ==
    /\ rate_covered = 0
    /\ rate_total = 0
    /\ rate_value = 0

IdleScore ==
    /\ total_changed_methods = 0
    /\ covered_count = 0
    /\ test_rows = <<>>
    /\ score_result = DefaultScoreResult

NoResponse == [status |-> 0, success |-> FALSE]

IdleRequest ==
    /\ endpoint = "none"
    /\ code_json = [current |-> <<>>, history |-> <<>>]
    /\ file_index = 0
    /\ response = NoResponse

IdleGrade ==
    /\ grade_score = 0
    /\ grade_higher = 0
    /\ grade_result = <<>>

IdleDiff ==
    /\ diff_current = <<>>
    /\ diff_history = <<>>
    /\ diff_result = <<>>

IdleChanges ==
    /\ json_content = [kind |-> "none"]
    /\ analysis_result = <<>>
    /\ diff_calls = 0

IdleParse ==
    /\ parse_javalang = TRUE
    /\ parse_source = <<>>
    /\ parse_result = <<>>

IdleSummary ==
    /\ summary_result = <<>>
    /\ summary_text = <<>>

IdleDeepseek ==
    /\ openai_imported = TRUE
    /\ api_key = ""
    /\ attempt = 0
    /\ api_calls = 0
    /\ api_replies = <<>>
    /\ call_return = <<>>

IdleMapping == mapping_rows = <<>>

IdleMore == IdleParse /\ IdleSummary /\ IdleDeepseek /\ IdleMapping

----------------------------------------------------------------------------
(* Specification of extract_changed_methods as a function of two documents. *)

InitChange ==
    /\ pc = "call"
    /\ current_code \in Documents
    /\ history_code \in Documents
    /\ changed = <<>>
    /\ IdleCoverage /\ IdleRate /\ IdleScore /\ IdleRequest /\ IdleGrade /\ IdleDiff /\ IdleChanges /\ IdleMore

ExtractChangedMethods ==
    /\ pc = "call"
    /\ changed' = extract_changed_methods(current_code, history_code)
    /\ pc' = "done"
    /\ UNCHANGED <<current_code, history_code>>
    /\ UNCHANGED <<vars_coverage, vars_rate, vars_score, vars_request,
                   vars_grade, vars_diff, vars_changes, vars_more>>

NextChange == ExtractChangedMethods

SpecChange == InitChange /\ [][NextChange]_vars

\* The identity of a method: package, class, method name and the ordered
\* parameter types, as a tuple.
IdentityKey(m) == <<m.package_name, m.class_name, m.method_name, m.parameters>>

\* positions of the methods of cur whose identity key hist lacks
NewPositions(cur, hist) ==
    LET keys == { IdentityKey(hist[j]) : j \in 1..Len(hist) }
    IN  { i \in 1..Len(cur) : IdentityKey(cur[i]) \notin keys }

\* the k-th smallest element of a set of positions
KthOf(S, k) == CHOOSE i \in S : Cardinality({ j \in S : j <= i }) = k

----------------------------------------------------------------------------
(* Specification of analyze_coverage as a function of its three lists. *)

ChangedMethodDicts ==
    { [package_name |-> "p", class_name |-> "C", method_name |-> "f"],
      [package_name |-> "p", class_name |-> "C", method_name |-> "g"],
      [class_name |-> "C", method_name |-> "f"] }

MappingEntryPool ==
    { [package_name |-> "p", class_name |-> "C", method_name |-> "f", description |-> <<"a">>],
      [package_name |-> "p", class_name |-> "C", method_name |-> "f", description |-> <<"X", " ", "y">>],
      [package_name |-> "p", class_name |-> "C", method_name |-> "f", description |-> <<>>],
      [package_name |-> "p", class_name |-> "C", method_name |-> "g", description |-> <<"a">>] }

TestCasePool ==
    { TestCase(<<"T", "1">>, <<"A">>, <<>>, <<>>),
      TestCase(<<"T", "2">>, <<"x">>, <<>>, <<>>),
      TestCase(<<"T", "3">>, <<"z">>, <<>>, <<>>) }

InitCoverage ==
    /\ pc = "call"
    /\ changed_methods \in SeqsUpTo(ChangedMethodDicts, MaxChanged)
    /\ mapping_entries \in SeqsUpTo(MappingEntryPool, MaxMapping)
    /\ test_cases \in SeqsUpTo(TestCasePool, MaxTests)
    /\ coverage_result = DefaultCoverageResult
    /\ IdleChange /\ IdleRate /\ IdleScore /\ IdleRequest /\ IdleGrade /\ IdleDiff /\ IdleChanges /\ IdleMore

AnalyzeCoverage ==
    /\ pc = "call"
    /\ \E r \in analyze_coverage(changed_methods, mapping_entries, test_cases) :
          coverage_result' = r
    /\ pc' = "done"
    /\ UNCHANGED <<changed_methods, mapping_entries, test_cases>>
    /\ UNCHANGED <<vars_change, vars_rate, vars_score, vars_request,
                   vars_grade, vars_diff, vars_changes, vars_more>>

NextCoverage == AnalyzeCoverage

SpecCoverage == InitCoverage /\ [][NextCoverage]_vars

----------------------------------------------------------------------------
(* Specification of the matching check: analyze_coverage on one changed     *)
(* method, one mapping entry for it and one test case.                      *)

\* descriptions: the texts of up to MaxDescLen characters over two letters
\* and one further character: a separator, a whitespace or ";"
DescThirdChars == {" ", "TAB", ",", "uff0c", "/", ";"}

Descriptions ==
    UNION { SeqsUpTo({"a", "X", c}, MaxDescLen) : c \in DescThirdChars }

FunctionTexts ==
    { <<>>, <<"a">>, <<"A">>, <<"x">>, <<"x", "z">>, <<"a", " ", "x">> }

InitMatch ==
    /\ pc = "call"
    /\ changed_methods = << [package_name |-> "p", class_name |-> "C", method_name |-> "f"] >>
    /\ \E d \in Descriptions :
          mapping_entries = << [package_name |-> "p", class_name |-> "C",
                                method_name |-> "f", description |-> d] >>
    /\ \E f \in FunctionTexts : test_cases = << TestCase(<<"T", "1">>, f, <<>>, <<>>) >>
    /\ coverage_result = DefaultCoverageResult
    /\ IdleChange /\ IdleRate /\ IdleScore /\ IdleRequest /\ IdleGrade /\ IdleDiff /\ IdleChanges /\ IdleMore

SpecMatch == InitMatch /\ [][NextCoverage]_vars

----------------------------------------------------------------------------
(* Properties of analyze_coverage. *)

Range(seq) == { seq[i] : i \in 1..Len(seq) }

\* the qualified name package.class.method of a changed-method dict
QualifiedName(method) ==
    DictGet(method, "package_name", "") \o "." \o DictGet(method, "class_name", "")
        \o "." \o DictGet(method, "method_name", "")

\* the description the mapping holds for a qualified name: that of the last
\* entry with this name, the empty text when there is none
DescriptionOf(entries, qname) ==
    LET at == { j \in 1..Len(entries) : entry_full_qualified_name(entries[j]) = qname }
    IN  IF at = {} THEN <<>>
        ELSE entries[CHOOSE j \in at : \A k \in at : k <= j].description

\* positions of the test cases whose function text matches a description
MatchingTests(description, tcs) ==
    { t \in 1..Len(tcs) : TestMatches(description, tcs[t]) }

\* C2: a changed method is reported covered (flag and covered_methods) iff
\* the mapping holds a non-empty description for its qualified name and some
\* test case matches it; matched_tests holds the id of every matching test
\* case, in test-case order, and is empty for an uncovered method.
C2_CoveredIffDescribedAndMatched ==
    (pc = "done" /\ changed_methods # <<>>) =>
        /\ Len(coverage_result.coverage_details) = Len(changed_methods)
        /\ \A i \in 1..Len(changed_methods) :
             LET d     == coverage_result.coverage_details[i]
                 qname == QualifiedName(changed_methods[i])
                 desc  == DescriptionOf(mapping_entries, qname)
                 hits  == IF desc = <<>> THEN {} ELSE MatchingTests(desc, test_cases)
             IN  /\ d.is_covered <=> (desc # <<>> /\ hits # {})
                 /\ d.is_covered <=> (qname \in Range(coverage_result.covered_methods))
                 /\ Len(d.matched_tests) = Cardinality(hits)
                 /\ \A k \in 1..Len(d.matched_tests) :
                      d.matched_tests[k] = test_cases[KthOf(hits, k)].test_id
                 /\ (~d.is_covered => d.matched_tests = <<>>)

\* A covered method matched by two test cases next to a described method
\* that no test case matches.
C2_Witness ==
    /\ pc = "done"
    /\ Len(coverage_result.coverage_details) = 2
    /\ coverage_result.coverage_details[1].is_covered
    /\ Len(coverage_result.coverage_details[1].matched_tests) = 2
    /\ ~coverage_result.coverage_details[2].is_covered
    /\ coverage_result.coverage_details[2].description # NoMappingDescription

\* the characters that end a keyword of a description
KeywordSeparators == {",", "uff0c", "/"} \cup WhitespaceChars

\* the keywords of a text, each given by the positions of its first and last
\* character: the maximal runs free of separators
KeywordRuns(text) ==
    { r \in (1..Len(text)) \X (1..Len(text)) :
        /\ r[1] <= r[2]
        /\ \A k \in r[1]..r[2] : text[k] \notin KeywordSeparators
        /\ (r[1] = 1 \/ text[r[1] - 1] \in KeywordSeparators)
        /\ (r[2] = Len(text) \/ text[r[2] + 1] \in KeywordSeparators) }

\* the matching relation between a lower-cased description D and a
\* lower-cased function text F
FuzzyRelation(D, F) ==
    LET runs == KeywordRuns(D)
        n    == Cardinality(runs)
        hits == Cardinality({ r \in runs : IsSubstr(SubSeq(D, r[1], r[2]), F) })
    IN  \/ IsSubstr(D, F)
        \/ IsSubstr(F, D)
        \/ (n >= 1 /\ hits >= Max(1, n \div 2))

\* C3: a (non-empty) description D matches a test function text F exactly
\* when, both lower-cased, D is a substring of F, or F is a substring of D,
\* or D has keywords (split on ",", U+FF0C, "/" and whitespace, n of them
\* counting each occurrence) of which at least max(1, n div 2) occur in F.
C3_FuzzyMatchRelation ==
    (pc = "done" /\ Len(mapping_entries) = 1 /\ Len(test_cases) = 1
        /\ Len(changed_methods) = 1
        /\ QualifiedName(changed_methods[1]) = entry_full_qualified_name(mapping_entries[1])
        /\ mapping_entries[1].description # <<>>) =>
        (coverage_result.coverage_details[1].is_covered
            <=> FuzzyRelation(Lower(mapping_entries[1].description),
                              Lower(test_cases[1].test_function)))

\* A description of four keywords matched through two of them only: neither
\* text contains the other.
C3_Witness ==
    /\ pc = "done"
    /\ Len(mapping_entries) = 1 /\ Len(test_cases) = 1
    /\ coverage_result.coverage_details # <<>>
    /\ coverage_result.coverage_details[1].is_covered
    /\ LET D == Lower(mapping_entries[1].description)
           F == Lower(test_cases[1].test_function)
       IN  /\ ~IsSubstr(D, F)
           /\ ~IsSubstr(F, D)
           /\ Cardinality(KeywordRuns(D)) = 4
           /\ Cardinality({ r \in KeywordRuns(D) : IsSubstr(SubSeq(D, r[1], r[2]), F) }) = 2

\* C4: covered_methods and uncovered_methods share no name, every changed
\* method's name is in one of them, their lengths add up to
\* total_changed_methods = the number of changed methods, and
\* coverage_details has one entry per changed method, in input order, whose
\* flag agrees with the list holding the method.
C4_CoveredUncoveredPartition ==
    (pc = "done" /\ changed_methods # <<>>) =>
        LET r == coverage_result
        IN  /\ Range(r.covered_methods) \cap Range(r.uncovered_methods) = {}
            /\ \A i \in 1..Len(changed_methods) :
                  QualifiedName(changed_methods[i])
                      \in Range(r.covered_methods) \cup Range(r.uncovered_methods)
            /\ Len(r.covered_methods) + Len(r.uncovered_methods) = r.total_changed_methods
            /\ r.total_changed_methods = Len(changed_methods)
            /\ Len(r.coverage_details) = Len(changed_methods)
            /\ \A i \in 1..Len(r.coverage_details) :
                  LET d == r.coverage_details[i]
                  IN  /\ d.method = QualifiedName(changed_methods[i])
                      /\ d.is_covered => d.method \in Range(r.covered_methods)
                      /\ ~d.is_covered => d.method \in Range(r.uncovered_methods)

\* A result with a covered method, an uncovered one without description and
\* a method listed twice.
C4_Witness ==
    /\ pc = "done"
    /\ coverage_result.covered_methods # <<>>
    /\ coverage_result.uncovered_methods # <<>>
    /\ \E i \in 1..Len(coverage_result.coverage_details) :
          coverage_result.coverage_details[i].description = NoMappingDescription

\* C6: for an empty changed-method list, whatever the mapping entries and
\* test cases, the result carries the error "no code changes detected",
\* which marks it as no computed rate (no result of a non-empty list carries
\* an error), and lists no covered, uncovered or detail entry.
C6_NoChangesIsAnError ==
    pc = "done" =>
        /\ changed_methods = <<>> =>
              /\ coverage_result.error = NoChangesError
              /\ coverage_result.covered_methods = <<>>
              /\ coverage_result.uncovered_methods = <<>>
              /\ coverage_result.coverage_details = <<>>
              /\ coverage_result.total_changed_methods = 0
        /\ changed_methods # <<>> =>
              /\ coverage_result.error = "None"
              /\ coverage_result.total_changed_methods > 0

\* The empty list analysed against mapping entries and test cases that
\* match each other.
C6_Witness ==
    /\ pc = "done"
    /\ changed_methods = <<>>
    /\ mapping_entries # <<>>
    /\ test_cases # <<>>
    /\ \E i \in 1..Len(mapping_entries) :
          /\ mapping_entries[i].description # <<>>
          /\ MatchingTests(mapping_entries[i].description, test_cases) # {}

----------------------------------------------------------------------------
(* Specification of the rate computation of lines 175-182 on its own, over  *)
(* totals large enough for the rounding to 4 decimals to reach 0 and 1.     *)
(* Every covered count is tried for a small total, the counts next to 0 and *)
(* next to the total for a large one.  Total 20000 is left out: there       *)
(* 1/20000 sits exactly between two 4-decimal values and the rate depends   *)
(* on the binary representation of the quotient.                            *)

RateTotals == { t \in 1..BigTotal : t # 2 * 10000 }

RateCovered(t) ==
    IF t <= SmallTotal THEN 0..t ELSE {0, 1, 2, t - 2, t - 1, t}

InitRate ==
    /\ pc = "call"
    /\ rate_total \in RateTotals
    /\ rate_covered \in RateCovered(rate_total)
    /\ rate_value = 0
    /\ IdleChange /\ IdleCoverage /\ IdleScore /\ IdleRequest /\ IdleGrade /\ IdleDiff /\ IdleChanges /\ IdleMore

RoundRate ==
    /\ pc = "call"
    /\ rate_value' \in CoverageRates(rate_covered, rate_total)
    /\ pc' = "done"
    /\ UNCHANGED <<rate_covered, rate_total>>
    /\ UNCHANGED <<vars_change, vars_coverage, vars_score, vars_request,
                   vars_grade, vars_diff, vars_changes, vars_more>>

NextRate == RoundRate

SpecRate == InitRate /\ [][NextRate]_vars

----------------------------------------------------------------------------
(* Properties of coverage_rate. *)

\* C5, as stated: coverage_rate lies in [0, 1] and is covered / total rounded
\* to 4 decimals, so that it is 1.0 exactly when no method is uncovered and
\* 0.0 exactly when no method is covered.
C5_RateExactlyAtTheEnds ==
    pc = "done" =>
        /\ rate_value \in 0..10000
        /\ rate_value \in RoundChoices(10000 * rate_covered, rate_total)
        /\ (rate_value = 10000 <=> rate_covered = rate_total)
        /\ (rate_value = 0 <=> rate_covered = 0)

\* C5, amended: coverage_rate lies in [0, 1] and is covered / total rounded to
\* 4 decimals; it is 1.0 whenever no method is uncovered and 0.0 whenever no
\* method is covered, and the converses hold for fewer than 20000 changed
\* methods.
C5_RateIsRoundedFraction ==
    pc = "done" =>
        /\ rate_value \in 0..10000
        /\ rate_value \in RoundChoices(10000 * rate_covered, rate_total)
        /\ (rate_covered = rate_total => rate_value = 10000)
        /\ (rate_covered = 0 => rate_value = 0)
        /\ (rate_total < 2 * 10000 =>
               /\ (rate_value = 10000 => rate_covered = rate_total)
               /\ (rate_value = 0 => rate_covered = 0))

\* A rate that the rounding moves: 2 of 3 methods covered gives 0.6667.
C5_Witness ==
    /\ pc = "done"
    /\ rate_total = 3
    /\ rate_covered = 2
    /\ rate_value = 6667

----------------------------------------------------------------------------
(* Specification of calculate_score as a function of its three arguments.   *)
(* covered_count may exceed total_changed_methods; a row may use the        *)
(* English keys, the Chinese keys, or carry none of the scored columns.     *)

\* 1.<input>2<ideographic comma><click>3)<check>: three numbered steps
ThreeSteps ==
    <<"1", ".", "u8f93", "u5165", "2", "u3001", "u70b9", "u51fb",
      "3", ")", "u68c0", "u67e5">>

\* a row under the Chinese headers that parse_test_cases keeps
RowChinese ==
    (KeyIdCn :> <<"T", "1">>) @@ (KeyFunctionCn :> <<"A">>)
        @@ (KeyStepsCn :> ThreeSteps) @@ (KeyExpectedCn :> <<"u6210", "u529f">>)

\* a row under the English headers, its expected result empty
RowEnglish ==
    (KeyId :> <<"T", "2">>) @@ (KeyFunction :> <<"x">>)
        @@ (KeySteps :> <<"u6253", "u5f00">>) @@ (KeyExpected :> <<>>)

\* a row without an id column, naming a boundary word
RowNoId ==
    (KeyFunction :> <<"u7a7a">>) @@ (KeySteps :> <<"a", ";", "b">>)
        @@ (KeyExpected :> <<"u6210", "u529f", "u8fd4", "u56de", "o", "k", " ", "1", "2", "3">>)

\* a row whose id is blank
RowBlankId ==
    (KeyIdCn :> <<" ">>) @@ (KeyFunctionCn :> <<"z">>)
        @@ (KeyStepsCn :> <<"u6b65", "u9aa4", "1", " ", "u6b65", "u9aa4", "2">>)
        @@ (KeyExpectedCn :> <<"o", "k", "o", "k", "o">>)

\* a row with none of the four columns
RowOther == ("note" :> <<"n">>)

\* a row whose one step carries both kinds of number, its expected result
\* blank
RowStepWord ==
    (KeyId :> <<"T", "3">>) @@ (KeyFunction :> <<"x">>)
        @@ (KeySteps :> <<"u6b65", "u9aa4", "1", ".">>) @@ (KeyExpected :> <<" ">>)

\* a row whose steps are blank and whose expected result repeats one keyword
RowBlankSteps ==
    (KeyStepsCn :> <<" ", "NL">>) @@ (KeyExpectedCn :> <<"u6210", "u529f", "u6210", "u529f">>)

RowPool ==
    {RowChinese, RowEnglish, RowNoId, RowBlankId, RowOther, RowStepWord, RowBlankSteps}

InitScore ==
    /\ pc = "call"
    /\ total_changed_methods \in 0..MaxTotal
    /\ covered_count \in 0..MaxCovered
    /\ test_rows \in SeqsUpTo(RowPool, MaxRows)
    /\ score_result = DefaultScoreResult
    /\ IdleChange /\ IdleCoverage /\ IdleRate /\ IdleRequest /\ IdleGrade /\ IdleDiff /\ IdleChanges /\ IdleMore

CalculateScore ==
    /\ pc = "call"
    /\ score_result' \in calculate_score(total_changed_methods, covered_count, test_rows)
    /\ pc' = "done"
    /\ UNCHANGED <<total_changed_methods, covered_count, test_rows>>
    /\ UNCHANGED <<vars_change, vars_coverage, vars_rate, vars_request,
                   vars_grade, vars_diff, vars_changes, vars_more>>

NextScore == CalculateScore

SpecScore == InitScore /\ [][NextScore]_vars

----------------------------------------------------------------------------
(* Properties of calculate_score. *)

\* C8: for all inputs total_score lies in [0, 100] and is the sum of the four
\* dimensions' weighted scores, clamped to [0, 100] and rounded to 1 decimal.
C8_TotalIsClampedWeightedSum ==
    pc = "done" =>
        LET d == score_result.dimensions
            sum == SumSeq([i \in 1..Len(d) |-> d[i].weighted_score])
        IN  /\ score_result.total_score \in 0..1000
            /\ score_result.total_score \in RoundChoices(Min(10000, Max(0, sum)), 10)

\* A call whose weighted scores do not add up to a whole number of tenths:
\* the rounding to 1 decimal acts.
C8_Witness ==
    /\ pc = "done"
    /\ test_rows # <<>>
    /\ LET d == score_result.dimensions
           sum == SumSeq([i \in 1..Len(d) |-> d[i].weighted_score])
       IN  /\ sum % 10 # 0
           /\ score_result.total_score > 0

\* C9: calculate_score returns exactly four dimensions, in the order
\* coverage, completeness, clarity, boundary, with the weights 0.40, 0.30,
\* 0.20, 0.10, which add up to 1.0; also for an empty test-case list and
\* for no changed methods.
C9_FourWeightedDimensions ==
    pc = "done" =>
        LET d == score_result.dimensions
        IN  /\ Len(d) = 4
            /\ [i \in 1..4 |-> d[i].dimension]
                   = << DimensionNames.coverage, DimensionNames.completeness,
                        DimensionNames.clarity, DimensionNames.boundary >>
            /\ [i \in 1..4 |-> d[i].weight] = <<40, 30, 20, 10>>
            /\ SumSeq([i \in 1..4 |-> d[i].weight]) = 100

\* The call named by the claim: no test cases and no changed methods.
C9_Witness ==
    /\ pc = "done"
    /\ test_rows = <<>>
    /\ total_changed_methods = 0
    /\ Len(score_result.dimensions) = 4

\* C10, as stated: with an empty test-case list and covered_count = 0 the
\* result is total_score 0.0 and grade F, for every total_changed_methods.
C10_NothingGivesZeroAndF ==
    (pc = "done" /\ test_rows = <<>> /\ covered_count = 0) =>
        /\ score_result.total_score = 0
        /\ score_result.grade = "F"

\* C10, amended: with an empty test-case list and covered_count = 0 the
\* result is total_score 0.0 and grade F for every total_changed_methods > 0;
\* for total_changed_methods = 0 the coverage dimension is 100 and the result
\* is total_score 40.0 and grade D.
C10_NothingGivesZeroUnlessNoChanges ==
    (pc = "done" /\ test_rows = <<>> /\ covered_count = 0) =>
        IF total_changed_methods > 0
        THEN /\ score_result.total_score = 0
             /\ score_result.grade = "F"
        ELSE /\ score_result.total_score = 400
             /\ score_result.grade = "D"

\* A call with changed methods, none covered, and no test cases.
C10_Witness ==
    /\ pc = "done"
    /\ test_rows = <<>>
    /\ covered_count = 0
    /\ total_changed_methods = MaxTotal
    /\ score_result.grade = "F"

----------------------------------------------------------------------------
(* Specification of an analysis request, index.py: analyze (lines 112-285)  *)
(* and api_analyze_with_project (lines 431-617) run the same steps between  *)
(* the validation of the uploads and the response.  A request carries the   *)
(* code-changes document (lists of current and of history sources), the     *)
(* test-case rows and the mapping entries in force.                         *)

EmptyDocument == [kind |-> "empty", package |-> "", types |-> <<>>]

RequestDocuments ==
    { EmptyDocument,
      [kind |-> "tree", package |-> "p",
       types |-> << [name |-> "C", body |-> << [kind |-> "method", name |-> "f",
                        params |-> <<>>, return_type |-> "void"] >>] >>],
      [kind |-> "tree", package |-> "p",
       types |-> << [name |-> "C", body |-> << [kind |-> "method", name |-> "f",
                        params |-> <<>>, return_type |-> "void"],
                     [kind |-> "method", name |-> "f",
                        params |-> <<"int">>, return_type |-> "int"] >>] >>] }

RequestMappings ==
    { <<>>,
      << [package_name |-> "p", class_name |-> "C", method_name |-> "f",
          description |-> <<"a">>] >> }

RequestRows == {RowChinese, RowNoId}

Endpoints == {"analyze", "analyze_with_project"}

Init ==
    /\ pc = "request"
    /\ endpoint \in Endpoints
    /\ code_json \in [current : SeqsUpTo(RequestDocuments, MaxFiles),
                       history : SeqsUpTo(RequestDocuments, MaxFiles)]
    /\ test_rows \in SeqsUpTo(RequestRows, MaxUploadRows) \ {<<>>}
    /\ mapping_entries \in RequestMappings
    /\ file_index = 0
    /\ response = NoResponse
    /\ changed_methods = <<>>
    /\ test_cases = <<>>
    /\ coverage_result = DefaultCoverageResult
    /\ total_changed_methods = 0
    /\ covered_count = 0
    /\ score_result = DefaultScoreResult
    /\ IdleChange /\ IdleRate /\ IdleGrade /\ IdleDiff /\ IdleChanges /\ IdleMore

\* lines 131-177, 447-491: an upload that fails validation, a missing
\* mapping, an unsupported test-case file or an unknown project ends the
\* request with an HTTP error
Reject ==
    /\ pc = "request"
    /\ \E status \in {400} \cup (IF endpoint = "analyze_with_project" THEN {404} ELSE {}) :
          response' = [status |-> status, success |-> FALSE]
    /\ pc' = "failed"
    /\ UNCHANGED <<endpoint, code_json, file_index>>
    /\ UNCHANGED <<vars_change, vars_coverage, vars_rate, vars_score,
                   vars_grade, vars_diff, vars_changes, vars_more>>

\* lines 179-184, 493-498
ParseUploads ==
    /\ pc = "request"
    /\ test_cases' = parse_test_cases(test_rows)
    /\ changed_methods' = <<>>
    /\ file_index' = 0
    /\ pc' = "extract"
    /\ UNCHANGED <<mapping_entries, coverage_result>>
    /\ UNCHANGED <<endpoint, code_json, response>>
    /\ UNCHANGED <<vars_change, vars_rate, vars_score,
                   vars_grade, vars_diff, vars_changes, vars_more>>

\* A variant of the turn that puts the methods of a pair in front of the list.
ExtractFilePairInFront ==
    /\ pc = "extract"
    /\ file_index < Len(code_json.current)
    /\ LET i == file_index
           current == code_json.current[i + 1]
           history == IF i < Len(code_json.history) THEN code_json.history[i + 1]
                      ELSE EmptyDocument
           methods == extract_changed_methods(current, history)
       IN  /\ current_code' = current
           /\ history_code' = history
           /\ changed' = methods
           /\ changed_methods' =
                  [k \in 1..Len(methods) |->
                      [package_name |-> methods[k].package_name,
                       class_name   |-> methods[k].class_name,
                       method_name  |-> methods[k].method_name]] \o changed_methods
    /\ file_index' = file_index + 1
    /\ UNCHANGED <<pc, mapping_entries, test_cases, coverage_result>>
    /\ UNCHANGED <<endpoint, code_json, response>>
    /\ UNCHANGED <<vars_rate, vars_score,
                   vars_grade, vars_diff, vars_changes, vars_more>>

\* lines 186-198, 500-512: one turn of the loop over range(len(current))
ExtractFilePair ==
    /\ pc = "extract"
    /\ file_index < Len(code_json.current)
    /\ LET i == file_index
           current == code_json.current[i + 1]
           history == IF i < Len(code_json.history) THEN code_json.history[i + 1]
                      ELSE EmptyDocument
           methods == extract_changed_methods(current, history)
       IN  /\ current_code' = current
           /\ history_code' = history
           /\ changed' = methods
           /\ changed_methods' = changed_methods \o
                  [k \in 1..Len(methods) |->
                      [package_name |-> methods[k].package_name,
                       class_name   |-> methods[k].class_name,
                       method_name  |-> methods[k].method_name]]
    /\ file_index' = file_index + 1
    /\ UNCHANGED <<pc, mapping_entries, test_cases, coverage_result>>
    /\ UNCHANGED <<endpoint, code_json, response>>
    /\ UNCHANGED <<vars_rate, vars_score,
                   vars_grade, vars_diff, vars_changes, vars_more>>

\* lines 201, 515
CoverageAnalysis ==
    /\ pc = "extract"
    /\ file_index = Len(code_json.current)
    /\ coverage_result' \in analyze_coverage(changed_methods, mapping_entries, test_cases)
    /\ pc' = "score"
    /\ UNCHANGED <<changed_methods, mapping_entries, test_cases>>
    /\ UNCHANGED <<vars_change, vars_rate, vars_score, vars_request,
                   vars_grade, vars_diff, vars_changes, vars_more>>

\* lines 204-208, 518-522: the score is computed from the CoverageResult,
\* whatever its error field, and from the rows as uploaded
Scoring ==
    /\ pc = "score"
    /\ total_changed_methods' = coverage_result.total_changed_methods
    /\ covered_count' = Len(coverage_result.covered_methods)
    /\ score_result' \in calculate_score(coverage_result.total_changed_methods,
                                         Len(coverage_result.covered_methods), test_rows)
    /\ pc' = "respond"
    /\ UNCHANGED test_rows
    /\ UNCHANGED <<vars_change, vars_coverage, vars_rate, vars_request,
                   vars_grade, vars_diff, vars_changes, vars_more>>

\* lines 210-277, 524-609: the optional AI analysis gives nothing, an error
\* or a result; the response is built from coverage_result and score_result
Respond ==
    /\ pc = "respond"
    /\ \E ai_result \in {"None", "error", "result"} :
          response' =
              [ status   |-> 200,
                success  |-> TRUE,
                coverage |-> [ total_changed_methods |-> coverage_result.total_changed_methods,
                               covered       |-> coverage_result.covered_methods,
                               uncovered     |-> coverage_result.uncovered_methods,
                               coverage_rate |-> coverage_result.coverage_rate,
                               details       |-> coverage_result.coverage_details ],
                score    |-> [ total_score |-> score_result.total_score,
                               grade       |-> score_result.grade,
                               summary     |-> score_result.summary,
                               dimensions  |-> score_result.dimensions ],
                ai_analysis  |-> ai_result,
                record_saved |-> (endpoint = "analyze_with_project") ]
    /\ pc' = "responded"
    /\ UNCHANGED <<endpoint, code_json, file_index>>
    /\ UNCHANGED <<vars_change, vars_coverage, vars_rate, vars_score,
                   vars_grade, vars_diff, vars_changes, vars_more>>

Next ==
    \/ Reject
    \/ ParseUploads
    \/ ExtractFilePair
    \/ CoverageAnalysis
    \/ Scoring
    \/ Respond

Spec == Init /\ [][Next]_vars

----------------------------------------------------------------------------
(* Properties of a request. *)

\* C7: in both endpoints, when change detection yields no changed method,
\* the request does not end as a successful response whose coverage block
\* and score were computed from the errored CoverageResult.
C7_NoChangesIsNotASuccess ==
    (pc = "responded" /\ coverage_result.error = NoChangesError) =>
        ~ /\ response.success
          /\ response.coverage.total_changed_methods = coverage_result.total_changed_methods
          /\ response.coverage.coverage_rate = coverage_result.coverage_rate
          /\ response.score.total_score = score_result.total_score

----------------------------------------------------------------------------
(* Specification of the grading of a total score, lines 302-303 and         *)
(* 334-357 of scoring_model.py, over every pair of total scores from 0.0 to *)
(* 100.0 of which the second is not below the first.                        *)

InitGrade ==
    /\ pc = "call"
    /\ grade_score \in 0..MaxScore
    /\ grade_higher \in grade_score..MaxScore
    /\ grade_result = <<>>
    /\ IdleChange /\ IdleCoverage /\ IdleRate /\ IdleScore /\ IdleRequest
    /\ IdleDiff /\ IdleChanges /\ IdleMore

\* grade = _get_grade(total); summary = _get_summary(total, grade)
GradeOf(total) ==
    [grade |-> get_grade(total), summary |-> get_summary(total, get_grade(total))]

Grade ==
    /\ pc = "call"
    /\ grade_result' = << GradeOf(grade_score), GradeOf(grade_higher) >>
    /\ pc' = "done"
    /\ UNCHANGED <<grade_score, grade_higher>>
    /\ UNCHANGED <<vars_change, vars_coverage, vars_rate, vars_score, vars_request,
                   vars_diff, vars_changes, vars_more>>

NextGrade == Grade

SpecGrade == InitGrade /\ [][NextGrade]_vars

----------------------------------------------------------------------------
(* Properties of the grade. *)

\* position of a grade from worst to best
GradeRank(grade) ==
    CASE grade = "F" -> 0 [] grade = "D" -> 1 [] grade = "C" -> 2
      [] grade = "B" -> 3 [] grade = "A" -> 4 [] OTHER -> -1

\* the grade that the thresholds 90, 80, 60, 40 give a total score
GradeBands(total, grade) ==
    /\ (grade = "A" <=> total >= 900)
    /\ (grade = "B" <=> (800 <= total /\ total < 900))
    /\ (grade = "C" <=> (600 <= total /\ total < 800))
    /\ (grade = "D" <=> (400 <= total /\ total < 600))
    /\ (grade = "F" <=> total < 400)

\* C11: the grade is determined by the total score alone: A iff total >= 90,
\* B iff 80 <= total < 90, C iff 60 <= total < 80, D iff 40 <= total < 60,
\* F iff total < 40; it never gets worse when the total increases; and the
\* summary is the one fixed sentence of the grade.
C11_GradeFollowsThresholds ==
    pc = "done" =>
        LET low == grade_result[1]
            high == grade_result[2]
        IN  /\ GradeBands(grade_score, low.grade)
            /\ GradeBands(grade_higher, high.grade)
            /\ GradeRank(high.grade) >= GradeRank(low.grade)
            /\ low.summary = summaries[low.grade]
            /\ high.summary = summaries[high.grade]
            /\ (low.grade = high.grade <=> low.summary = high.summary)

\* Two scores on either side of a threshold: 89.9 is graded B, 90.0 A.
C11_Witness ==
    /\ pc = "done"
    /\ grade_score = 899 /\ grade_result[1].grade = "B"
    /\ grade_higher = 900 /\ grade_result[2].grade = "A"
    /\ grade_result[1].summary # grade_result[2].summary

----------------------------------------------------------------------------
(* Specification of calculate_score without test cases, over totals large   *)
(* enough for the rounding of the coverage score to one decimal to reach    *)
(* 100.  Every covered count up to one above the total is tried for a small *)
(* total, the counts next to 0 and next to the total for a large one.       *)
(* Total 2000 is left out: there 1999/2000 x 100 = 99.95 sits exactly       *)
(* between two one-decimal values.                                          *)

CoverageTotals == { t \in 0..BigScoreTotal : t # 2 * 1000 }

CoverageCounts(t) ==
    IF t <= SmallTotal THEN 0..(t + 1)
    ELSE {0, 1, 2, t - 2, t - 1, t, t + 1}

InitCoverageScore ==
    /\ pc = "call"
    /\ total_changed_methods \in CoverageTotals
    /\ covered_count \in CoverageCounts(total_changed_methods)
    /\ test_rows = <<>>
    /\ score_result = DefaultScoreResult
    /\ IdleChange /\ IdleCoverage /\ IdleRate /\ IdleRequest
    /\ IdleGrade /\ IdleDiff /\ IdleChanges /\ IdleMore

SpecCoverageScore == InitCoverageScore /\ [][NextScore]_vars

----------------------------------------------------------------------------
(* Properties of score_coverage. *)

\* the coverage dimension of the result
CoverageDimension == score_result.dimensions[1]

\* the raw score is 100 for no changed methods and otherwise
\* min(100, covered / total x 100) rounded to one decimal
CoverageScoreIsCappedRate ==
    IF total_changed_methods = 0
    THEN CoverageDimension.score = 1000
    ELSE CoverageDimension.score \in
            RoundChoices(Min(1000 * total_changed_methods, 1000 * covered_count),
                         total_changed_methods)

\* no larger covered count of the domain gives a smaller score
CoverageScoreNeverDecreases ==
    \A more \in CoverageCounts(total_changed_methods) :
        (covered_count < more /\ more <= total_changed_methods) =>
            \A d \in score_coverage(total_changed_methods, more) :
                d.score >= CoverageDimension.score

\* C12, as stated: the raw score is 100 when total = 0 and otherwise
\* min(100, covered / total x 100) rounded to one decimal; for
\* 0 <= covered <= total it is in [0, 100], is 100 exactly when
\* covered = total, and never decreases when covered increases.
C12_FullScoreOnlyWhenAllCovered ==
    pc = "done" =>
        /\ CoverageScoreIsCappedRate
        /\ covered_count <= total_changed_methods =>
              /\ CoverageDimension.score \in 0..1000
              /\ (CoverageDimension.score = 1000 <=> covered_count = total_changed_methods)
              /\ CoverageScoreNeverDecreases

\* C12, amended: the raw score is 100 when total = 0 and otherwise
\* min(100, covered / total x 100) rounded to one decimal; for
\* 0 <= covered <= total it is in [0, 100], is 100 whenever covered = total,
\* is 100 only when covered = total provided total < 2000, and never
\* decreases when covered increases.
C12_CoverageScore ==
    pc = "done" =>
        /\ CoverageScoreIsCappedRate
        /\ covered_count <= total_changed_methods =>
              /\ CoverageDimension.score \in 0..1000
              /\ (covered_count = total_changed_methods => CoverageDimension.score = 1000)
              /\ ((CoverageDimension.score = 1000 /\ total_changed_methods < 2 * 1000)
                     => covered_count = total_changed_methods)
              /\ CoverageScoreNeverDecreases

\* One of three changed methods covered: 33.3.
C12_Witness ==
    /\ pc = "done"
    /\ total_changed_methods = 3
    /\ covered_count = 1
    /\ CoverageDimension.score = 333

----------------------------------------------------------------------------
(* Properties of score_completeness. *)

\* number of sum terms of a function over the rows
RECURSIVE SumOver(_, _)
SumOver(Op(_), rows) ==
    IF rows = <<>> THEN 0 ELSE Op(Head(rows)) + SumOver(Op, Tail(rows))

\* markers "1." "1)" and the like: a digit followed by a mark
NumberedMarkers(text) ==
    Cardinality({ i \in 1..(Len(text) - 1) :
                    text[i] \in Digits /\ text[i + 1] \in {".", "u3001", ")"} })

\* markers "step 1": the two characters of the word followed by a digit
StepWordMarkers(text) ==
    Cardinality({ i \in 1..(Len(text) - 2) :
                    text[i] = "u6b65" /\ text[i + 1] = "u9aa4" /\ text[i + 2] \in Digits })

StepSeparators == {";", "uff1b", "NL"}

\* the non-blank pieces between newlines and semicolons, each counted at its
\* first character that is not white space
StepSegments(text) ==
    Cardinality({ i \in 1..Len(text) :
        /\ text[i] \notin StepSeparators \cup WhitespaceChars
        /\ \A j \in 1..(i - 1) :
              text[j] \notin StepSeparators \cup WhitespaceChars
                 => \E k \in (j + 1)..(i - 1) : text[k] \in StepSeparators })

DetectedSteps(text) ==
    LET markers == Max(NumberedMarkers(text), StepWordMarkers(text))
    IN  IF markers > 0 THEN markers ELSE StepSegments(text)

HasActionVerb(text) == \E i \in 1..Len(action_words) : IsSubstr(action_words[i], text)

\* 0 for an empty step text, otherwise 30 + s + a
CompletenessOfCase(row) ==
    LET text == RowGet(row, KeySteps, KeyStepsCn)
        steps == DetectedSteps(text)
    IN  IF text = <<>> THEN 0
        ELSE 30
             + (IF steps >= 3 THEN 40 ELSE IF steps = 2 THEN 25
                ELSE IF steps = 1 THEN 10 ELSE 0)
             + (IF HasActionVerb(text) THEN 30 ELSE 0)

\* C13: each case scores 0 for an empty step text and otherwise 30 + s + a
\* (s = 40, 25, 10, 0 for a step count >= 3, 2, 1, 0, counted from the
\* markers and only without any from the split on newlines and semicolons;
\* a = 30 iff an action verb occurs); the dimension score is the mean over
\* the cases rounded to one decimal, 0 for no cases, within [0, 100], and
\* 100 for a single case with three numbered steps and an action verb.
C13_CompletenessIsMeanOfCases ==
    pc = "done" =>
        LET d == score_result.dimensions[2]
            n == Len(test_rows)
        IN  /\ d.score \in 0..1000
            /\ n = 0 => d.score = 0
            /\ n > 0 => d.score \in RoundChoices(10 * SumOver(CompletenessOfCase, test_rows), n)
            /\ (/\ n = 1
                /\ NumberedMarkers(RowGet(test_rows[1], KeySteps, KeyStepsCn)) >= 3
                /\ HasActionVerb(RowGet(test_rows[1], KeySteps, KeyStepsCn)))
                  => d.score = 1000

\* Three cases whose mean is not a whole number: one with numbered steps and
\* verbs, one counted by its step word, one without step text.
C13_Witness ==
    /\ pc = "done"
    /\ test_rows = <<RowChinese, RowStepWord, RowOther>>
    /\ score_result.dimensions[2].score = 467

----------------------------------------------------------------------------
(* Properties of score_clarity. *)

\* the verification keywords that occur in a text, each counted once
KeywordsFound(text) ==
    Cardinality({ i \in 1..Len(verify_words) : IsSubstr(verify_words[i], text) })

\* 0 for an empty expected result, otherwise 40 + k + l
ClarityOfCase(row) ==
    LET text == RowGet(row, KeyExpected, KeyExpectedCn)
        found == KeywordsFound(text)
    IN  IF text = <<>> THEN 0
        ELSE 40
             + (IF found >= 2 THEN 40 ELSE IF found = 1 THEN 25 ELSE 0)
             + (IF Len(text) >= 10 THEN 20
                ELSE IF Len(text) >= 5 /\ Len(text) <= 9 THEN 10 ELSE 0)

\* C14: each case scores 0 for an empty expected-result text and otherwise
\* 40 + k + l (k = 40 for >= 2 distinct verification keywords, 25 for one,
\* 0 for none; l = 20 for >= 10 characters, 10 for 5 to 9, 0 below 5); the
\* dimension score is the mean over the cases rounded to one decimal, 0 for
\* no cases, and within [0, 100].
C14_ClarityIsMeanOfCases ==
    pc = "done" =>
        LET d == score_result.dimensions[3]
            n == Len(test_rows)
        IN  /\ d.score \in 0..1000
            /\ n = 0 => d.score = 0
            /\ n > 0 => d.score \in RoundChoices(10 * SumOver(ClarityOfCase, test_rows), n)

\* Three cases: two keywords in 10 characters (100), one keyword written
\* twice in 4 characters (65), no keyword in 5 characters (50).
C14_Witness ==
    /\ pc = "done"
    /\ test_rows = <<RowNoId, RowBlankSteps, RowBlankId>>
    /\ score_result.dimensions[3].score = 717

----------------------------------------------------------------------------
(* Specification of calculate_score over lists long enough for every share  *)
(* of boundary cases (none, under 15%, 15% to under 30%, 30% and more) and  *)
(* every ratio of cases to changed methods to occur.  The score counts the   *)
(* rows and the boundary cases among them, so the rows of each kind are     *)
(* taken in one order.                                                      *)

\* a row that names a boundary word in its expected result only
RowFailure == (KeyId :> <<"T", "4">>) @@ (KeyExpected :> <<"u5931", "u8d25">>)

BoundaryRows == <<RowEnglish, RowNoId, RowFailure>>

BoundaryLists ==
    { [i \in 1..Len(ks) |-> BoundaryRows[ks[i]]] :
        ks \in { k \in SeqsUpTo(1..Len(BoundaryRows), MaxBoundaryRows) :
                   \A i \in 1..(Len(k) - 1) : k[i] <= k[i + 1] } }

InitBoundary ==
    /\ pc = "call"
    /\ total_changed_methods \in 0..MaxTotal
    /\ covered_count = 0
    /\ test_rows \in BoundaryLists
    /\ score_result = DefaultScoreResult
    /\ IdleChange /\ IdleCoverage /\ IdleRate /\ IdleRequest
    /\ IdleGrade /\ IdleDiff /\ IdleChanges /\ IdleMore

SpecBoundary == InitBoundary /\ [][NextScore]_vars

----------------------------------------------------------------------------
(* Properties of score_boundary. *)

\* the case names a boundary word in its function, steps or expected text
MentionsBoundary(row) ==
    \E i \in 1..Len(boundary_words) :
        \/ IsSubstr(boundary_words[i], RowGet(row, KeyFunction, KeyFunctionCn))
        \/ IsSubstr(boundary_words[i], RowGet(row, KeySteps, KeyStepsCn))
        \/ IsSubstr(boundary_words[i], RowGet(row, KeyExpected, KeyExpectedCn))

BoundaryCases(rows) == Cardinality({ i \in 1..Len(rows) : MentionsBoundary(rows[i]) })

\* b: 50 for a share of at least 30%, 30 for at least 15%, 15 for fewer but
\* at least one case, 0 for none
BoundaryShareScore(rows) ==
    LET count == BoundaryCases(rows)
        n == Len(rows)
    IN  IF 100 * count >= 30 * n THEN 50
        ELSE IF 100 * count >= 15 * n THEN 30
        ELSE IF count >= 1 THEN 15 ELSE 0

\* r: 25 for no changed methods, otherwise 50, 35, 20, 10 for a ratio of
\* cases to changed methods >= 3, >= 2, >= 1, < 1
BoundaryRatioScore(rows, total) ==
    LET n == Len(rows)
    IN  IF total = 0 THEN 25
        ELSE IF n >= 3 * total THEN 50
        ELSE IF n >= 2 * total THEN 35
        ELSE IF n >= total THEN 20 ELSE 10

\* C15: score_boundary is 0 for an empty list and otherwise b + r capped at
\* 100 (b from the share of cases with a boundary keyword, r from the ratio
\* of cases to changed methods); with at least one case the score is between
\* 10 and 100.
C15_BoundaryIsShareAndRatio ==
    pc = "done" =>
        LET d == score_result.dimensions[4]
        IN  IF test_rows = <<>>
            THEN d.score = 0
            ELSE /\ d.score = 10 * Min(100, BoundaryShareScore(test_rows)
                                   + BoundaryRatioScore(test_rows, total_changed_methods))
                 /\ d.score \in 100..1000

\* Seven cases of which one names a boundary word (under 15%), for three
\* changed methods (ratio between 2 and 3): 15 + 35.
C15_Witness ==
    /\ pc = "done"
    /\ Len(test_rows) = 7
    /\ BoundaryCases(test_rows) = 1
    /\ total_changed_methods = 3
    /\ score_result.dimensions[4].score = 500

----------------------------------------------------------------------------
(* Properties of the DimensionScore records. *)

\* C16: every DimensionScore of the four scorers has a raw score in [0, 100]
\* and a weighted_score equal to its reported raw score multiplied by its
\* weight.  (score is in tenths, weight and weighted_score in hundredths.)
C16_WeightedIsScoreTimesWeight ==
    pc = "done" =>
        \A i \in 1..Len(score_result.dimensions) :
            LET d == score_result.dimensions[i]
            IN  /\ d.score \in 0..1000
                /\ 10 * d.weighted_score = d.score * d.weight

----------------------------------------------------------------------------
(* compute_diff on its own: one call of lines 91-135 of diff_analyzer.py    *)
(* for every pair of texts made of at most MaxLines lines of DiffLinePool,  *)
(* followed or not by a last line without its newline.                      *)

LinePackage == <<"p", "a", "c", "k", "a", "g", "e", " ", "p", ";", "NL">>
LineIncrement == <<"+", "+", "i", ";", "NL">>
LineDecrement == <<"-", "-", "x", "NL">>

DiffLinePool == {LinePackage, LineIncrement, LineDecrement}

\* what may follow the last newline of a text
DiffTails == {<<>>, <<"a">>}

DiffTexts == {Flatten(ls) \o tail : ls \in SeqsUpTo(DiffLinePool, MaxLines), tail \in DiffTails}

InitDiff ==
    /\ pc = "call"
    /\ diff_current \in DiffTexts
    /\ diff_history \in DiffTexts
    /\ diff_result = <<>>
    /\ IdleChange /\ IdleCoverage /\ IdleRate /\ IdleScore /\ IdleRequest
    /\ IdleGrade /\ IdleChanges /\ IdleMore

ComputeDiff ==
    /\ pc = "call"
    /\ diff_result' = compute_diff(diff_current, diff_history)
    /\ pc' = "done"
    /\ UNCHANGED <<diff_current, diff_history>>
    /\ UNCHANGED <<vars_change, vars_coverage, vars_rate, vars_score, vars_request,
                   vars_grade, vars_changes, vars_more>>

NextDiff == ComputeDiff

SpecDiff == InitDiff /\ [][NextDiff]_vars

----------------------------------------------------------------------------
(* Properties of compute_diff. *)

\* C17: compute_diff(x, x) has no added and no removed line, for every text
\* x, the empty text and the texts without a final newline included.
C17_SameTextNoDifference ==
    (pc = "done" /\ diff_current = diff_history) =>
        /\ diff_result.added_lines = <<>>
        /\ diff_result.removed_lines = <<>>

\* A text of several lines that does not end in a newline, compared with
\* itself.
C17_Witness ==
    /\ pc = "done"
    /\ diff_current = diff_history
    /\ Len(SplitLines(diff_current)) >= 2
    /\ diff_current[Len(diff_current)] # "NL"
    /\ diff_result.added_lines = <<>>
    /\ diff_result.removed_lines = <<>>

RECURSIVE LinesOfOpcodes(_, _, _)
\* the lines of the opcodes that change something, each opcode giving its
\* range of a (side "a", the lines dropped) or of b (side "b", the lines
\* introduced)
LinesOfOpcodes(codes, lines, side) ==
    IF codes = <<>> THEN <<>>
    ELSE LET c == Head(codes)
             part == IF side = "a" /\ c.tag \in {"replace", "delete"}
                     THEN SubSeq(lines, c.i1 + 1, c.i2)
                     ELSE IF side = "b" /\ c.tag \in {"replace", "insert"}
                     THEN SubSeq(lines, c.j1 + 1, c.j2)
                     ELSE <<>>
         IN  part \o LinesOfOpcodes(Tail(codes), lines, side)

\* C18: for every pair of texts, added_lines holds exactly the lines that
\* the line-level diff from history to current introduces in current and
\* removed_lines exactly the lines it drops from history, each in order of
\* appearance; so the two lengths differ by the difference of the numbers of
\* lines of current and of history.
C18_AddedAndRemovedAreTheDiff ==
    pc = "done" =>
        LET current_lines == SplitLines(diff_current)
            history_lines == SplitLines(diff_history)
            codes == get_opcodes(history_lines, current_lines)
        IN  /\ diff_result.added_lines = LinesOfOpcodes(codes, current_lines, "b")
            /\ diff_result.removed_lines = LinesOfOpcodes(codes, history_lines, "a")
            /\ Len(diff_result.added_lines) - Len(diff_result.removed_lines)
                   = Len(current_lines) - Len(history_lines)

----------------------------------------------------------------------------
(* analyze_code_changes on its own: one call of lines 138-175 of            *)
(* diff_analyzer.py for every payload of ChangePayloads: the documents with *)
(* at most MaxFiles elements on either side, flat or nested under "data",   *)
(* and the documents that are not of this form.                             *)

TextLetter == <<"a">>
TextPackage == LinePackage
TextPackageAndLine == LinePackage \o <<"a", "NL">>

ChangeTexts == {TextLetter, TextPackage, TextPackageAndLine}

\* the elements of the arrays: a source text, or a number in its place
ChangeElements == {JString(t) : t \in ChangeTexts} \cup {JNumber}

ChangeLists == SeqsUpTo(ChangeElements, MaxFiles)

\* the object with the two fields
PairObject(current, history) == JObject(("current" :> current) @@ ("history" :> history))

Document(value) == [kind |-> "json", value |-> value]

\* documents whose current and history are arrays
ArrayPayloads ==
    {Document(PairObject(JArray(c), JArray(h))) : c \in ChangeLists, h \in ChangeLists}
    \cup {Document(JObject("data" :> PairObject(JArray(c), JArray(h)))) :
             c \in ChangeLists, h \in ChangeLists}

\* the other contents
OtherPayloads ==
    { [kind |-> "invalid"],
      Document(JArray(<<JNumber>>)), Document(JString(<<"s">>)), Document(JNumber), Document(JNull),
      Document(JObject(<<>>)),
      Document(JObject("current" :> JArray(<<>>))),
      Document(JObject("history" :> JArray(<<>>))),
      Document(PairObject(JNumber, JArray(<<>>))),
      Document(PairObject(JArray(<<>>), JNull)),
      Document(PairObject(JString(TextLetter), JString(TextLetter))),
      Document(PairObject(JObject(<<>>), JArray(<<>>))),
      Document(JObject("data" :> JNumber)),
      Document(JObject("data" :> JNull)),
      Document(JObject("data" :> JString(<<"x">>))),
      Document(JObject("data" :> JString(Chars("current") \o <<" ">> \o Chars("history")))),
      Document(JObject("data" :> JArray(<<>>))),
      Document(JObject("data" :> JArray(<<JString(Chars("current")), JString(Chars("history"))>>))),
      Document(JObject("data" :> JObject("current" :> JArray(<<>>)))),
      Document(JObject(("data" :> JNumber) @@ ("current" :> JArray(<<>>)) @@ ("history" :> JArray(<<>>)))),
      Document(JObject(("data" :> PairObject(JArray(<<JString(TextPackage)>>), JArray(<<>>)))
                       @@ ("current" :> JNumber))) }

ChangePayloads == ArrayPayloads \cup OtherPayloads

InitChanges ==
    /\ pc = "call"
    /\ json_content \in ChangePayloads
    /\ analysis_result = <<>>
    /\ diff_calls = 0
    /\ IdleChange /\ IdleCoverage /\ IdleRate /\ IdleScore /\ IdleRequest
    /\ IdleGrade /\ IdleDiff /\ IdleMore

AnalyzeCodeChanges ==
    /\ pc = "call"
    /\ LET outcome == analyze_code_changes(json_content)
       IN  /\ analysis_result' = [raises |-> outcome.raises, result |-> outcome.result]
           /\ diff_calls' = outcome.calls
    /\ pc' = "done"
    /\ UNCHANGED json_content
    /\ UNCHANGED <<vars_change, vars_coverage, vars_rate, vars_score, vars_request,
                   vars_grade, vars_diff, vars_more>>

NextChanges == AnalyzeCodeChanges

SpecChanges == InitChanges /\ [][NextChanges]_vars

----------------------------------------------------------------------------
(* Properties of analyze_code_changes. *)

\* the object that is to hold the two arrays: the value of "data" when the
\* root has that field, else the root
PayloadBody(content) ==
    IF "data" \in DOMAIN content.value.fields THEN content.value.fields["data"] ELSE content.value

\* a value is an array of strings
IsTextArray(value) ==
    value.type = "array" /\ \A i \in 1..Len(value.items) : value.items[i].type = "string"

\* a valid payload: a JSON object that holds, itself or under "data", the
\* fields current and history, each an array of strings
ValidPayload(content) ==
    /\ content.kind = "json"
    /\ content.value.type = "object"
    /\ PayloadBody(content).type = "object"
    /\ {"current", "history"} \subseteq DOMAIN PayloadBody(content).fields
    /\ IsTextArray(PayloadBody(content).fields["current"])
    /\ IsTextArray(PayloadBody(content).fields["history"])

\* the text at position i of an array of strings, the empty text past its end
TextAt(value, i) == IF i <= Len(value.items) THEN value.items[i].text ELSE <<>>

AddedCount(diff) == Len(diff.added_lines)
RemovedCount(diff) == Len(diff.removed_lines)

\* C19: for a valid payload analyze_code_changes pairs current[i] with
\* history[i] by position, takes the empty document for an element missing
\* on either side, and returns max(len(current), len(history)) diffs in file
\* order, total_added and total_removed being the sums of the numbers of
\* added and removed lines of the files.
C19_PairsByPosition ==
    (pc = "done" /\ ValidPayload(json_content)) =>
        LET current == PayloadBody(json_content).fields["current"]
            history == PayloadBody(json_content).fields["history"]
            result == analysis_result.result
        IN  /\ analysis_result.raises = "None"
            /\ result.error = "None"
            /\ Len(result.diffs) = Max(Len(current.items), Len(history.items))
            /\ \A i \in 1..Len(result.diffs) :
                   result.diffs[i] = compute_diff(TextAt(current, i), TextAt(history, i))
            /\ result.total_added = SumOver(AddedCount, result.diffs)
            /\ result.total_removed = SumOver(RemovedCount, result.diffs)

\* Two current files against one history file: the second is compared with
\* the empty document and all its lines are added.
C19_Witness ==
    /\ pc = "done"
    /\ ValidPayload(json_content)
    /\ Len(PayloadBody(json_content).fields["current"].items) = 2
    /\ Len(PayloadBody(json_content).fields["history"].items) = 1
    /\ Len(analysis_result.result.diffs) = 2
    /\ analysis_result.result.diffs[2].added_lines = SplitLines(TextPackageAndLine)
    /\ analysis_result.result.diffs[2].removed_lines = <<>>
    /\ analysis_result.result.total_added >= 2

\* C20: a malformed payload (no JSON, a root that is no object, a missing
\* current or history field, a field of the wrong type) is rejected before
\* any comparison: analyze_code_changes never raises, and for such a payload
\* it returns a result with error set and no diffs without a call of
\* compute_diff.
C20_MalformedIsRejected ==
    pc = "done" =>
        /\ analysis_result.raises = "None"
        /\ ~ValidPayload(json_content) =>
               /\ analysis_result.result.error # "None"
               /\ analysis_result.result.diffs = <<>>
               /\ diff_calls = 0

----------------------------------------------------------------------------
(* parse_java_code on its own: one call of lines 52-145 of ast_parser.py,   *)
(* followed by the loop of extract_methods_from_code, for every document of *)
(* ParseDocuments, in a process that could import javalang and in one that  *)
(* could not.                                                               *)

\* a text of whitespace only, and a text on which javalang raises something
\* other than JavaSyntaxError (its tokenizer's LexerError)
BlankDocument == [kind |-> "blank", package |-> "", types |-> <<>>]
ExceptionDocument == [kind |-> "exception", package |-> "", types |-> <<>>]

ParseDocuments == Documents \cup {BlankDocument, ExceptionDocument}

InitParse ==
    /\ pc = "call"
    /\ parse_javalang \in BOOLEAN
    /\ parse_source \in ParseDocuments
    /\ parse_result = <<>>
    /\ IdleChange /\ IdleCoverage /\ IdleRate /\ IdleScore /\ IdleRequest
    /\ IdleGrade /\ IdleDiff /\ IdleChanges /\ IdleSummary /\ IdleDeepseek /\ IdleMapping

ParseSource ==
    /\ pc = "call"
    /\ LET result == ParseJavaCode(parse_javalang, parse_source)
       IN  parse_result' = [result |-> result, methods |-> MethodsOfClasses(result)]
    /\ pc' = "done"
    /\ UNCHANGED <<parse_javalang, parse_source>>
    /\ UNCHANGED <<vars_change, vars_coverage, vars_rate, vars_score, vars_request,
                   vars_grade, vars_diff, vars_changes, vars_summary, vars_deepseek,
                   vars_mapping>>

NextParse == ParseSource

SpecParse == InitParse /\ [][NextParse]_vars

----------------------------------------------------------------------------
(* Properties of parse_java_code. *)

\* a ParseResult with errors has no class, and its document no method
NoPartialResult ==
    parse_result.result.errors # <<>> =>
        /\ parse_result.result.classes = <<>>
        /\ parse_result.methods = <<>>

\* what the call returns for a text that is empty or blank, and for a text
\* that fails to parse
EmptyAndUnparsable ==
    /\ parse_source.kind \in {"empty", "blank"} =>
           /\ parse_result.result.classes = <<>>
           /\ parse_result.result.errors = <<MsgEmptySource>>
    /\ parse_source.kind \in {"invalid", "exception"} =>
           /\ parse_result.result.classes = <<>>
           /\ parse_result.result.errors # <<>>

----------------------------------------------------------------------------
(* Requests whose documents declare methods of different names, so that the *)
(* order of the changed-method list shows.                                  *)

DocumentF ==
    [kind |-> "tree", package |-> "p",
     types |-> << [name |-> "C", body |-> << [kind |-> "method", name |-> "f",
                      params |-> <<>>, return_type |-> "void"] >>] >>]

DocumentGH ==
    [kind |-> "tree", package |-> "q",
     types |-> << [name |-> "D", body |-> << [kind |-> "method", name |-> "g",
                      params |-> <<>>, return_type |-> "void"] >>],
                  [name |-> "E", body |-> << [kind |-> "method", name |-> "h",
                      params |-> <<>>, return_type |-> "void"] >>] >>]

OrderedDocuments == {EmptyDocument, DocumentF, DocumentGH}

OrderedMappings ==
    { << [package_name |-> "p", class_name |-> "C", method_name |-> "f",
          description |-> <<"a">>] >>,
      << [package_name |-> "q", class_name |-> "E", method_name |-> "h",
          description |-> <<"u767b", "u5f55">>] >> }

InitOrdered ==
    /\ pc = "request"
    /\ endpoint \in Endpoints
    /\ code_json \in [current : SeqsUpTo(OrderedDocuments, MaxFiles),
                       history : SeqsUpTo(OrderedDocuments, MaxFiles)]
    /\ test_rows \in {<<row>> : row \in RequestRows}
    /\ mapping_entries \in OrderedMappings
    /\ file_index = 0
    /\ response = NoResponse
    /\ changed_methods = <<>>
    /\ test_cases = <<>>
    /\ coverage_result = DefaultCoverageResult
    /\ total_changed_methods = 0
    /\ covered_count = 0
    /\ score_result = DefaultScoreResult
    /\ IdleChange /\ IdleRate /\ IdleGrade /\ IdleDiff /\ IdleChanges /\ IdleMore

SpecOrdered == InitOrdered /\ [][Next]_vars

----------------------------------------------------------------------------
(* Properties of the changed-method list of a request. *)

\* the dict of lines 193-197 for a MethodInfo
MethodDict(m) ==
    [package_name |-> m.package_name, class_name |-> m.class_name,
     method_name |-> m.method_name]

\* the changed methods of the pairs of index below n, pair after pair, each
\* pair in the order of extract_changed_methods; a pair without history
\* document has the empty one
ChangedOfPairs(documents, n) ==
    Flatten([i \in 1..n |->
        LET methods == extract_changed_methods(
                           documents.current[i],
                           IF i <= Len(documents.history) THEN documents.history[i]
                           ELSE EmptyDocument)
        IN  [k \in 1..Len(methods) |-> MethodDict(methods[k])]])

\* C22: in both endpoints the changed-method list handed to analyze_coverage
\* is the concatenation, in file-pair order, of the results of
\* extract_changed_methods in in-file order; the list is a function of the
\* documents of the request, the coverage result is what analyze_coverage
\* gives for that list, the mapping and the parsed rows, and the score what
\* calculate_score gives for that coverage result and the rows, so that equal
\* inputs give equal results.
C22_ChangedListInFileOrder ==
    LET all == ChangedOfPairs(code_json, Len(code_json.current))
    IN  /\ pc = "extract" => changed_methods = ChangedOfPairs(code_json, file_index)
        /\ pc \in {"score", "respond", "responded"} =>
               /\ changed_methods = all
               /\ coverage_result \in
                      analyze_coverage(all, mapping_entries, parse_test_cases(test_rows))
        /\ pc \in {"respond", "responded"} =>
               score_result \in calculate_score(coverage_result.total_changed_methods,
                                                Len(coverage_result.covered_methods), test_rows)
        /\ pc = "responded" =>
               /\ response.coverage.details = coverage_result.coverage_details
               /\ response.score.total_score = score_result.total_score

\* Two pairs: the first contributes p.C.f, the second q.D.g and q.E.h.
C22_Witness ==
    /\ pc = "responded"
    /\ code_json.current = <<DocumentF, DocumentGH>>
    /\ code_json.history = <<EmptyDocument>>
    /\ changed_methods =
           << [package_name |-> "p", class_name |-> "C", method_name |-> "f"],
              [package_name |-> "q", class_name |-> "D", method_name |-> "g"],
              [package_name |-> "q", class_name |-> "E", method_name |-> "h"] >>
    /\ coverage_result.total_changed_methods = 3
    /\ Cardinality(analyze_coverage(changed_methods, mapping_entries, test_cases)) = 1
    /\ Cardinality(calculate_score(3, Len(coverage_result.covered_methods), test_rows)) = 1

----------------------------------------------------------------------------
(* Properties of the test cases of a request. *)

\* the rows that parse_test_cases keeps
KeptRows(rows) == SelectSeq(rows, LAMBDA row : parse_test_cases(<<row>>) # <<>>)

\* C23: in the analysis pipeline the rows without id or function are
\* excluded before the core: the test cases that calculate_score scores are
\* those that parse_test_cases kept, the ones analyze_coverage works on.
C23_ScoredCasesAreParsedCases ==
    pc \in {"respond", "responded"} =>
        /\ Len(test_cases) = Len(KeptRows(test_rows))
        /\ score_result \in calculate_score(coverage_result.total_changed_methods,
                                            Len(coverage_result.covered_methods),
                                            KeptRows(test_rows))

----------------------------------------------------------------------------
(* Properties of the mapping index of analyze_coverage. *)

\* the positions of the entries for a qualified name
EntriesFor(entries, full_name) ==
    { i \in 1..Len(entries) : entry_full_qualified_name(entries[i]) = full_name }

\* the last of a non-empty set of positions
LastOf(positions) == CHOOSE i \in positions : \A j \in positions : j <= i

\* the entries that are the last of their qualified name, in order
LastEntries(entries) ==
    LET keep == { i \in 1..Len(entries) :
                    i = LastOf(EntriesFor(entries, entry_full_qualified_name(entries[i]))) }
        RECURSIVE Pick(_)
        Pick(i) == IF i > Len(entries) THEN <<>>
                   ELSE (IF i \in keep THEN <<entries[i]>> ELSE <<>>) \o Pick(i + 1)
    IN  Pick(1)

\* C24: when several mapping entries share a qualified name, analyze_coverage
\* uses the description of the last of them and ignores the earlier ones: the
\* result is the one for the list without the earlier entries, and for every
\* changed method with entries the reported description, the matched tests
\* and the coverage decision are those of the last entry's description.
C24_LastMappingEntryWins ==
    (pc = "done" /\ changed_methods # <<>>) =>
        /\ coverage_result \in
               analyze_coverage(changed_methods, LastEntries(mapping_entries), test_cases)
        /\ \A i \in 1..Len(coverage_result.coverage_details) :
               LET detail == coverage_result.coverage_details[i]
                   positions == EntriesFor(mapping_entries, detail.method)
                   description == mapping_entries[LastOf(positions)].description
               IN  positions # {} =>
                       IF description = <<>>
                       THEN /\ detail.description = NoMappingDescription
                            /\ detail.matched_tests = <<>>
                            /\ ~detail.is_covered
                       ELSE /\ detail.description = description
                            /\ detail.matched_tests = MatchedTests(description, test_cases)
                            /\ detail.is_covered = (detail.matched_tests # <<>>)

\* Two entries for p.C.f: the first would match the test case, the last does
\* not, and the method is reported uncovered with the last description.
C24_Witness ==
    /\ pc = "done"
    /\ Len(changed_methods) = 1
    /\ Len(mapping_entries) = 2
    /\ EntriesFor(mapping_entries, coverage_result.coverage_details[1].method) = {1, 2}
    /\ mapping_entries[1].description # mapping_entries[2].description
    /\ MatchedTests(mapping_entries[1].description, test_cases) # <<>>
    /\ coverage_result.coverage_details[1].description = mapping_entries[2].description
    /\ ~coverage_result.coverage_details[1].is_covered
    /\ coverage_result.uncovered_methods = <<coverage_result.coverage_details[1].method>>

----------------------------------------------------------------------------
(* Properties of the changed methods without mapping entry. *)

\* C25: for every changed method whose qualified name has no mapping entry,
\* whatever the test cases, the detail entry has the empty description,
\* is_covered false and no matched test, and the method is listed in
\* uncovered_methods.
C25_UnmappedHasEmptyDescription ==
    pc = "done" =>
        \A i \in 1..Len(coverage_result.coverage_details) :
            LET detail == coverage_result.coverage_details[i]
            IN  EntriesFor(mapping_entries, detail.method) = {} =>
                    /\ detail.description = <<>>
                    /\ ~detail.is_covered
                    /\ detail.matched_tests = <<>>
                    /\ \E k \in 1..Len(coverage_result.uncovered_methods) :
                           coverage_result.uncovered_methods[k] = detail.method

----------------------------------------------------------------------------
(* format_diff_summary on its own: one call of lines 178-216 of             *)
(* diff_analyzer.py for the results analyze_code_changes can return: a      *)
(* result with an error and nothing else, or up to MaxFiles diffs with      *)
(* their totals.  The diffs are those of compute_diff for a current text of *)
(* n lines and a history text of m other lines.                             *)

\* the text of the lines a1, a2, ..., an; every other line ends in a blank
NumberedText(letter, n) ==
    Flatten([k \in 1..n |-> <<letter>> \o DecimalChars(k)
                               \o (IF k % 2 = 0 THEN <<" ", "NL">> ELSE <<"NL">>)])

SummaryCounts == {0, 1, ShownLines, ShownLines + 1, MaxSummaryLines}

SummaryDiffs ==
    { compute_diff(NumberedText("a", n), NumberedText("r", m)) :
        n \in SummaryCounts, m \in SummaryCounts }

RECURSIVE SumSizes(_, _)
\* the sum of the sizes of one of the lists of the diffs
SumSizes(diffs, field) ==
    IF diffs = <<>> THEN 0
    ELSE Len(IF field = "added" THEN Head(diffs).added_lines ELSE Head(diffs).removed_lines)
         + SumSizes(Tail(diffs), field)

SummaryResults ==
    { AnalysisResult(diffs, SumSizes(diffs, "added"), SumSizes(diffs, "removed"), "None") :
        diffs \in SeqsUpTo(SummaryDiffs, MaxFiles) }
    \cup { AnalysisResult(<<>>, 0, 0, message) :
             message \in {MsgParseFailed, MsgRootNotObject, MsgMissingFields, MsgNotArrays} }

InitSummary ==
    /\ pc = "call"
    /\ summary_result \in SummaryResults
    /\ summary_text = <<>>
    /\ IdleChange /\ IdleCoverage /\ IdleRate /\ IdleScore /\ IdleRequest
    /\ IdleGrade /\ IdleDiff /\ IdleChanges /\ IdleParse /\ IdleDeepseek /\ IdleMapping

FormatDiffSummary ==
    /\ pc = "call"
    /\ summary_text' = format_diff_summary(summary_result)
    /\ pc' = "done"
    /\ UNCHANGED summary_result
    /\ UNCHANGED <<vars_change, vars_coverage, vars_rate, vars_score, vars_request,
                   vars_grade, vars_diff, vars_changes, vars_parse, vars_deepseek,
                   vars_mapping>>

NextSummary == FormatDiffSummary

SpecSummary == InitSummary /\ [][NextSummary]_vars

----------------------------------------------------------------------------
(* Properties of format_diff_summary. *)

RECURSIVE LinesFrom(_, _)
\* the lines of a text from position start on: the parts between the newlines
LinesFrom(text, start) ==
    IF \E p \in start..Len(text) : text[p] = "NL"
    THEN LET end == CHOOSE p \in start..Len(text) :
                        text[p] = "NL" /\ \A q \in start..(p - 1) : text[q] # "NL"
         IN  <<SubSeq(text, start, end - 1)>> \o LinesFrom(text, end + 1)
    ELSE <<SubSeq(text, start, Len(text))>>

\* the lines of the summary that begin with one of the tokens, in order
LinesWith(lines, tokens) ==
    SelectSeq(lines, LAMBDA line : line # <<>> /\ line[1] \in tokens)

\* the first min(10, n) lines of a list, each after the sign and without its
\* trailing whitespace
ShownOf(list, sign) ==
    [k \in 1..Min(10, Len(list)) |-> <<sign>> \o RStrip(list[k])]

\* the line "... K more" for a list of more than ten lines
MoreOf(list) ==
    IF Len(list) > 10
    THEN << <<"    ... u8fd8u6709 ">> \o DecimalChars(Len(list) - 10) \o <<" u884c">> >>
    ELSE <<>>

\* the line that opens the part of the i-th file
FileHeader(i, diff) ==
    <<"### u6587u4ef6 ">> \o DecimalChars(i) \o <<": ">> \o diff.package_path

\* C26: for a result without error format_diff_summary shows for each file,
\* in file order, the first min(10, n) of its n added lines and the first
\* min(10, m) of its m removed lines in their order, followed by a line
\* "... K more" with K = n - 10 (m - 10) exactly when n > 10 (m > 10); the
\* header has the number of diffs and the stored totals; a result with error
\* gives the error line only.
C26_SummaryShowsFirstTenLines ==
    pc = "done" =>
        LET diffs == summary_result.diffs
            lines == LinesFrom(summary_text, 1)
        IN  IF summary_result.error # "None"
            THEN summary_text = <<"u5206u6790u9519u8bef: ", summary_result.error>>
            ELSE /\ lines[1] = <<"u5171u68c0u6d4bu5230 ">> \o DecimalChars(Len(diffs)) \o <<" u4e2au4ee3u7801u6587u4ef6u53d8u66f4">>
                 /\ lines[2] = <<"u603bu65b0u589e ">> \o DecimalChars(summary_result.total_added)
                                   \o <<" u884cuff0cu603bu5220u9664 ">>
                                   \o DecimalChars(summary_result.total_removed) \o <<" u884c">>
                 /\ LinesWith(lines, {"### u6587u4ef6 ", "    + ", "    - ", "    ... u8fd8u6709 "}) =
                        Flatten([i \in 1..Len(diffs) |->
                            << FileHeader(i, diffs[i]) >>
                            \o ShownOf(diffs[i].added_lines, "    + ")
                            \o MoreOf(diffs[i].added_lines)
                            \o ShownOf(diffs[i].removed_lines, "    - ")
                            \o MoreOf(diffs[i].removed_lines)])

\* Two files: the first with eleven added lines (ten shown, one more) and
\* ten removed (all shown), the second with one added line.
C26_Witness ==
    /\ pc = "done"
    /\ summary_result.error = "None"
    /\ Len(summary_result.diffs) = 2
    /\ Len(summary_result.diffs[1].added_lines) = 11
    /\ Len(summary_result.diffs[1].removed_lines) = 10
    /\ Len(summary_result.diffs[2].added_lines) = 1
    /\ Len(LinesWith(LinesFrom(summary_text, 1), {"    + "})) = 11
    /\ Len(LinesWith(LinesFrom(summary_text, 1), {"    - "})) >= 10
    /\ LinesWith(LinesFrom(summary_text, 1), {"    ... u8fd8u6709 "})[1]
           = <<"    ... u8fd8u6709 ", "1", " u884c">>

----------------------------------------------------------------------------
(* call_deepseek as a process: the code up to the loop, the call of create, *)
(* and the code that runs when the awaited call has given a response or     *)
(* raised.  The call is made with timeout=TIMEOUT_SECONDS, so it always     *)
(* ends: in a response, in APITimeoutError or in another exception.         *)

ApiContents ==
    {ContentNone, ContentEmpty, [kind |-> "invalid"], Document(JObject(<<>>)), Document(JNull)}

ApiUsages ==
    { UsageNone,
      Usage(7, 5, <<>>),
      Usage(7, 5, ("prompt_cache_hit_tokens" :> 3) @@ ("prompt_cache_miss_tokens" :> 4)) }

ApiReplies ==
    { Response(choices, usage) :
        choices \in {<<>>} \cup {<<content>> : content \in ApiContents}, usage \in ApiUsages }
    \cup { Raised(class, "m") :
             class \in {"APITimeoutError", "RateLimitError", "APIStatusError",
                        "APIConnectionError", "RuntimeError"} }

InitDeepseek ==
    /\ pc = "start"
    /\ openai_imported \in BOOLEAN
    /\ api_key \in {"", "key"}
    /\ attempt = 0
    /\ api_calls = 0
    /\ api_replies = <<>>
    /\ call_return = <<>>
    /\ IdleChange /\ IdleCoverage /\ IdleRate /\ IdleScore /\ IdleRequest
    /\ IdleGrade /\ IdleDiff /\ IdleChanges /\ IdleParse /\ IdleSummary /\ IdleMapping

\* lines 104-108: get_client and the entry of the loop
StartCall ==
    /\ pc = "start"
    /\ attempt' = 0
    /\ IF get_client(openai_imported, api_key) = "None"
       THEN call_return' = ErrorDict(MsgNoClient) /\ pc' = "done"
       ELSE IF 0 < MAX_RETRIES + 1
       THEN call_return' = call_return /\ pc' = "request"
       ELSE call_return' = ErrorDict(MsgCallFailed) /\ pc' = "done"
    /\ UNCHANGED <<openai_imported, api_key, api_calls, api_replies>>
    /\ UNCHANGED <<vars_change, vars_coverage, vars_rate, vars_score, vars_request,
                   vars_grade, vars_diff, vars_changes, vars_parse, vars_summary,
                   vars_mapping>>

\* lines 110-117: create is called and awaited
CreateCompletion ==
    /\ pc = "request"
    /\ api_calls' = api_calls + 1
    /\ pc' = "await"
    /\ UNCHANGED <<openai_imported, api_key, attempt, api_replies, call_return>>
    /\ UNCHANGED <<vars_change, vars_coverage, vars_rate, vars_score, vars_request,
                   vars_grade, vars_diff, vars_changes, vars_parse, vars_summary,
                   vars_mapping>>

\* lines 117-173: the call gives its reply and the iteration runs to its
\* return, to the next iteration or to the return after the loop
ResumeCall ==
    /\ pc = "await"
    /\ \E reply \in ApiReplies :
          LET end == Iteration(reply, attempt)
          IN  /\ api_replies' = Append(api_replies, reply)
              /\ IF end.ends = "return"
                 THEN attempt' = attempt /\ call_return' = end.value /\ pc' = "done"
                 ELSE IF end.ends = "raise"
                 THEN attempt' = attempt /\ call_return' = end.value /\ pc' = "raised"
                 ELSE /\ attempt' = attempt + 1
                      /\ IF attempt + 1 < MAX_RETRIES + 1
                         THEN call_return' = call_return /\ pc' = "request"
                         ELSE call_return' = ErrorDict(MsgCallFailed) /\ pc' = "done"
    /\ UNCHANGED <<openai_imported, api_key, api_calls>>
    /\ UNCHANGED <<vars_change, vars_coverage, vars_rate, vars_score, vars_request,
                   vars_grade, vars_diff, vars_changes, vars_parse, vars_summary,
                   vars_mapping>>

NextDeepseek == StartCall \/ CreateCompletion \/ ResumeCall

SpecDeepseek == InitDeepseek /\ [][NextDeepseek]_vars

\* the event loop runs the coroutine whenever it can take a step
SpecDeepseekLive == SpecDeepseek /\ WF_vars(NextDeepseek)

----------------------------------------------------------------------------
(* Properties of call_deepseek. *)

\* the reply is a response whose content is None or ""
GaveEmptyContent(reply) ==
    reply.raised = "None" /\ reply.choices # <<>> /\ reply.choices[1].kind \in {"None", "empty"}

\* the reply is a response whose content is not JSON
GaveInvalidJson(reply) ==
    reply.raised = "None" /\ reply.choices # <<>> /\ reply.choices[1].kind = "invalid"

\* the reply is a complete response with a JSON document
GaveResult(reply) ==
    /\ reply.raised = "None" /\ reply.choices # <<>>
    /\ reply.choices[1].kind = "json" /\ reply.usage.kind = "usage"

MayRetry(reply) ==
    GaveEmptyContent(reply) \/ GaveInvalidJson(reply) \/ reply.raised = "APITimeoutError"

AttemptsAndReturn ==
    /\ pc # "raised"
    /\ api_calls <= 2 /\ api_calls <= MAX_RETRIES + 1
    /\ api_calls = 2 => MayRetry(api_replies[1])
    /\ pc = "done" =>
          /\ Len(api_replies) = api_calls
          /\ call_return.keys \in {{"error"}, {"result", "usage"}}
          /\ IF api_calls > 0 /\ GaveResult(api_replies[api_calls])
             THEN /\ call_return.keys = {"result", "usage"}
                  /\ call_return.result = api_replies[api_calls].choices[1].value
                  /\ call_return.usage.total_tokens = api_replies[api_calls].usage.total_tokens
             ELSE call_return.keys = {"error"} /\ call_return.error # ""
          /\ (api_calls > 0 /\ ~MayRetry(api_replies[1]) /\ ~GaveResult(api_replies[1])) =>
                 api_calls = 1 /\ call_return.keys = {"error"}

\* C27: call_deepseek always ends and never raises; it calls the API at most
\* MAX_RETRIES + 1 = 2 times and returns a dict with result and usage or a
\* dict with error; there is a second call only after the first gave empty
\* content, invalid JSON or a timeout, and the result of a second call that
\* succeeds is returned; after a rate limit, another API error or another
\* exception the call ends with an error without a further attempt.
C27_CallEndsWithinTwoAttempts ==
    [](AttemptsAndReturn) /\ <>(pc = "done")

\* The first call timed out, the second gave a result, and it is returned.
C27_Witness ==
    /\ pc = "done"
    /\ api_calls = 2
    /\ api_replies[1].raised = "APITimeoutError"
    /\ GaveResult(api_replies[2])
    /\ call_return.keys = {"result", "usage"}
    /\ call_return.usage.prompt_cache_hit_tokens = 3

----------------------------------------------------------------------------
(* Requests whose documents are also empty or unparsable, on the current    *)
(* and on the history side.                                                 *)

InvalidDocument == [kind |-> "invalid", package |-> "", types |-> <<>>]

BatchDocuments == {EmptyDocument, InvalidDocument, DocumentF, DocumentGH}

InitBatch ==
    /\ pc = "request"
    /\ endpoint \in Endpoints
    /\ code_json \in [current : SeqsUpTo(BatchDocuments, MaxFiles),
                       history : SeqsUpTo(BatchDocuments, MaxFiles)]
    /\ test_rows = <<RowChinese>>
    /\ mapping_entries \in OrderedMappings
    /\ file_index = 0
    /\ response = NoResponse
    /\ changed_methods = <<>>
    /\ test_cases = <<>>
    /\ coverage_result = DefaultCoverageResult
    /\ total_changed_methods = 0
    /\ covered_count = 0
    /\ score_result = DefaultScoreResult
    /\ IdleChange /\ IdleRate /\ IdleGrade /\ IdleDiff /\ IdleChanges /\ IdleMore

SpecBatch == InitBatch /\ [][Next]_vars

----------------------------------------------------------------------------
(* Properties of pairs with a side that yields no methods. *)

\* the methods a document declares, class after class: none unless it is a
\* compilation unit
DeclaredMethods(document) ==
    IF document.kind # "tree" THEN <<>>
    ELSE Flatten([i \in 1..Len(document.types) |->
             [k \in 1..Len(document.types[i].body) |->
                 [package_name |-> document.package,
                  class_name |-> document.types[i].name,
                  method_name |-> document.types[i].body[k].name]]])

\* C28: in a turn of the loop over the pairs, when the history document of
\* the pair yields no methods (it is empty, missing, or does not parse)
\* every method of the current document is reported changed, in order; when
\* the current document yields no methods the pair adds nothing to the list
\* and the loop goes on with the next pair.
C28_PairWithASideWithoutMethods ==
    [][(pc = "extract" /\ file_index' = file_index + 1) =>
          LET current == code_json.current[file_index + 1]
              history == IF file_index < Len(code_json.history)
                         THEN code_json.history[file_index + 1] ELSE EmptyDocument
          IN  /\ DeclaredMethods(history) = <<>> =>
                    /\ [k \in 1..Len(changed') |-> MethodDict(changed'[k])] = DeclaredMethods(current)
                    /\ changed_methods' = changed_methods \o DeclaredMethods(current)
              /\ DeclaredMethods(current) = <<>> =>
                    /\ changed' = <<>>
                    /\ changed_methods' = changed_methods
                    /\ pc' = "extract"
                    /\ code_json' = code_json]_vars

\* The first pair has a current document that does not parse and added
\* nothing; the second has no history document and both its methods are in
\* the list.
C28_Witness ==
    /\ pc = "extract"
    /\ file_index = 2
    /\ code_json.current[1] = InvalidDocument
    /\ code_json.current[2] = DocumentGH
    /\ Len(code_json.history) = 1
    /\ code_json.history[1] = DocumentF
    /\ changed_methods = DeclaredMethods(DocumentGH)
    /\ Len(changed_methods) = 2

----------------------------------------------------------------------------
(* analyze_coverage for test cases built directly, one of them with an      *)
(* empty function text, and for test cases parse_test_cases makes of rows,  *)
(* some of them with an empty or blank function.                            *)

TestEmptyFunction == TestCase(<<"T", "0">>, <<>>, <<>>, <<>>)

\* rows with an id whose function is blank, empty or missing
RowBlankFunction == (KeyId :> <<"T", "5">>) @@ (KeyFunction :> <<" ", "TAB">>)
RowEmptyFunction == (KeyIdCn :> <<"T", "6">>) @@ (KeyFunctionCn :> <<>>) @@ (KeyFunction :> <<"x">>)
RowNoFunction == (KeyId :> <<"T", "7">>) @@ (KeySteps :> <<"a">>)

FunctionRows == {RowChinese, RowBlankFunction, RowEmptyFunction, RowNoFunction}

FunctionMappings ==
    { <<>>,
      << [package_name |-> "p", class_name |-> "C", method_name |-> "f", description |-> <<"a">>] >>,
      << [package_name |-> "p", class_name |-> "C", method_name |-> "f", description |-> <<"X", " ", "y">>],
         [package_name |-> "p", class_name |-> "C", method_name |-> "g", description |-> <<" ">>] >>,
      << [package_name |-> "p", class_name |-> "C", method_name |-> "f", description |-> <<>>],
         [package_name |-> "p", class_name |-> "C", method_name |-> "g", description |-> <<"a">>] >> }

InitEmptyFunction ==
    /\ \/ /\ pc = "call"
          /\ test_rows = <<>>
          /\ test_cases \in SeqsUpTo(TestCasePool \cup {TestEmptyFunction}, MaxTests)
          /\ changed_methods \in SeqsUpTo(ChangedMethodDicts, MaxChanged)
       \/ /\ pc = "rows"
          /\ test_rows \in SeqsUpTo(FunctionRows, MaxRows) \ {<<>>}
          /\ test_cases = <<>>
          /\ changed_methods = << [package_name |-> "p", class_name |-> "C", method_name |-> "f"] >>
    /\ mapping_entries \in FunctionMappings
    /\ coverage_result = DefaultCoverageResult
    /\ total_changed_methods = 0
    /\ covered_count = 0
    /\ score_result = DefaultScoreResult
    /\ IdleChange /\ IdleRate /\ IdleRequest /\ IdleGrade /\ IdleDiff /\ IdleChanges /\ IdleMore

\* parse_test_cases(rows), lines 73-98
ParseTestCases ==
    /\ pc = "rows"
    /\ test_cases' = parse_test_cases(test_rows)
    /\ pc' = "call"
    /\ UNCHANGED <<changed_methods, mapping_entries, coverage_result>>
    /\ UNCHANGED <<vars_change, vars_rate, vars_score, vars_request,
                   vars_grade, vars_diff, vars_changes, vars_more>>

NextEmptyFunction == ParseTestCases \/ AnalyzeCoverage

SpecEmptyFunction == InitEmptyFunction /\ [][NextEmptyFunction]_vars

----------------------------------------------------------------------------
(* Properties of test cases with an empty function text. *)

\* C29: a test case whose function text is empty matches every non-empty
\* description: every changed method whose mapping description is not empty
\* is covered and has the test case among its matched tests; and no test
\* case made by parse_test_cases has an empty function text.
C29_EmptyFunctionMatchesEveryDescription ==
    /\ pc = "done" =>
          \A t \in 1..Len(test_cases) :
              test_cases[t].test_function = <<>> =>
                  \A i \in 1..Len(coverage_result.coverage_details) :
                      LET detail == coverage_result.coverage_details[i]
                          positions == EntriesFor(mapping_entries, detail.method)
                      IN  (positions # {} /\ mapping_entries[LastOf(positions)].description # <<>>) =>
                              /\ detail.is_covered
                              /\ \E k \in 1..Len(detail.matched_tests) :
                                     detail.matched_tests[k] = test_cases[t].test_id
                              /\ \E k \in 1..Len(coverage_result.covered_methods) :
                                     coverage_result.covered_methods[k] = detail.method
    /\ (test_rows # <<>> /\ pc # "rows") =>
          /\ \A t \in 1..Len(test_cases) : test_cases[t].test_function # <<>>
          /\ Len(test_cases) = Len(SelectSeq(test_rows, LAMBDA row : row = RowChinese))

\* The one test case has an empty function text, both changed methods have
\* a description (one of them a blank), and both are covered by it.
C29_Witness ==
    /\ pc = "done"
    /\ test_cases = <<TestEmptyFunction>>
    /\ Len(changed_methods) = 2
    /\ Len(mapping_entries) = 2
    /\ mapping_entries[2].description = <<" ">>
    /\ Len(coverage_result.covered_methods) = 2
    /\ \A i \in 1..2 : coverage_result.coverage_details[i].matched_tests = <<TestEmptyFunction.test_id>>

----------------------------------------------------------------------------
(* The mapping rows of an upload, the documents of one pair and the test    *)
(* cases, through parse_mapping_data, extract_changed_methods and           *)
(* analyze_coverage as the endpoints chain them (index.py lines 157-158,    *)
(* 189-201).  Some documents have no package declaration, and some rows try *)
(* to name their methods.                                                   *)

MappingRow(package, class_name, method, desc) ==
    (KeyPackage :> package) @@ (KeyClass :> class_name) @@ (KeyMethod :> method)
        @@ (KeyDescription :> desc)

MappingRowPool ==
    { MappingRow(<<"p">>, <<"C">>, <<"f">>, <<"a">>),
      MappingRow(<<>>, <<"C">>, <<"f">>, <<"a">>),
      MappingRow(<<" ">>, <<"C">>, <<"f">>, <<"a">>),
      MappingRow(<<".">>, <<"C">>, <<"f">>, <<"a">>),
      MappingRow(<<".", "C">>, <<"f">>, <<"x">>, <<"a">>),
      (KeyPackageCn :> <<>>) @@ (KeyPackage :> <<"p">>) @@ (KeyClassCn :> <<"C">>)
          @@ (KeyMethodCn :> <<"f">>) @@ (KeyDescriptionCn :> <<"a">>),
      (KeyClass :> <<"C">>) @@ (KeyMethod :> <<"f">>) @@ (KeyDescription :> <<"a">>) }

UnpackagedF ==
    [kind |-> "tree", package |-> "",
     types |-> << [name |-> "C", body |-> << [kind |-> "method", name |-> "f",
                      params |-> <<>>, return_type |-> "void"] >>] >>]

UnpackagedFG ==
    [kind |-> "tree", package |-> "",
     types |-> << [name |-> "C", body |-> << [kind |-> "method", name |-> "f",
                      params |-> <<"int">>, return_type |-> "void"],
                   [kind |-> "method", name |-> "g",
                      params |-> <<>>, return_type |-> "void"] >>] >>]

InitUnpackaged ==
    /\ pc = "rows"
    /\ mapping_rows \in SeqsUpTo(MappingRowPool, MaxMapping)
    /\ current_code \in {DocumentF, UnpackagedF, UnpackagedFG}
    /\ history_code \in {EmptyDocument, UnpackagedF}
    /\ test_cases \in SeqsUpTo({TestCase(<<"T", "1">>, <<"A">>, <<>>, <<>>), TestEmptyFunction},
                              MaxTests)
    /\ changed = <<>>
    /\ changed_methods = <<>>
    /\ mapping_entries = <<>>
    /\ coverage_result = DefaultCoverageResult
    /\ IdleRate /\ IdleScore /\ IdleRequest /\ IdleGrade /\ IdleDiff /\ IdleChanges
    /\ IdleParse /\ IdleSummary /\ IdleDeepseek

\* index.py line 158: parse_mapping_data(mapping_rows)
ParseMappingData ==
    /\ pc = "rows"
    /\ mapping_entries' = parse_mapping_data(mapping_rows)
    /\ pc' = "pair"
    /\ UNCHANGED <<changed_methods, test_cases, coverage_result, mapping_rows>>
    /\ UNCHANGED <<vars_change, vars_rate, vars_score, vars_request,
                   vars_grade, vars_diff, vars_changes, vars_parse, vars_summary, vars_deepseek>>

\* index.py lines 192-198: extract_changed_methods for the pair and the
\* dicts of its methods
ExtractPair ==
    /\ pc = "pair"
    /\ LET methods == extract_changed_methods(current_code, history_code)
       IN  /\ changed' = methods
           /\ changed_methods' =
                  [k \in 1..Len(methods) |->
                      [package_name |-> methods[k].package_name,
                       class_name   |-> methods[k].class_name,
                       method_name  |-> methods[k].method_name]]
    /\ pc' = "call"
    /\ UNCHANGED <<current_code, history_code>>
    /\ UNCHANGED <<mapping_entries, test_cases, coverage_result, mapping_rows>>
    /\ UNCHANGED <<vars_rate, vars_score, vars_request,
                   vars_grade, vars_diff, vars_changes, vars_parse, vars_summary, vars_deepseek>>

NextUnpackaged == ParseMappingData \/ ExtractPair \/ AnalyzeCoverage

SpecUnpackaged == InitUnpackaged /\ [][NextUnpackaged]_vars

----------------------------------------------------------------------------
(* Properties of methods of documents without package declaration. *)

\* C30: with mapping entries made by parse_mapping_data, no entry has an
\* empty package, and a changed method of a document without a package
\* declaration, whose qualified name begins with the dot, is not reported
\* covered: it is in uncovered_methods and not in covered_methods.
C30_UnpackagedMethodIsNeverCovered ==
    /\ pc # "rows" => \A e \in 1..Len(mapping_entries) : mapping_entries[e].package_name # ""
    /\ pc = "done" =>
          \A i \in 1..Len(changed_methods) :
              changed_methods[i].package_name = "" =>
                  LET detail == coverage_result.coverage_details[i]
                      name == "." \o changed_methods[i].class_name \o "."
                                  \o changed_methods[i].method_name
                  IN  /\ detail.method = name
                      /\ ~detail.is_covered
                      /\ detail.matched_tests = <<>>
                      /\ \E k \in 1..Len(coverage_result.uncovered_methods) :
                             coverage_result.uncovered_methods[k] = name
                      /\ \A k \in 1..Len(coverage_result.covered_methods) :
                             coverage_result.covered_methods[k] # name

\* The document has no package, a row names class C and method f with an
\* empty package and a description the test case would match, and the
\* method is uncovered.
C30_Witness ==
    /\ pc = "done"
    /\ current_code = UnpackagedF
    /\ history_code = EmptyDocument
    /\ mapping_rows = << MappingRow(<<>>, <<"C">>, <<"f">>, <<"a">>),
                         MappingRow(<<"p">>, <<"C">>, <<"f">>, <<"a">>) >>
    /\ Len(mapping_entries) = 1
    /\ MatchedTests(<<"a">>, test_cases) # <<>>
    /\ coverage_result.uncovered_methods = <<".C.f">>
    /\ coverage_result.covered_methods = <<>>

====
